---- MODULE Spec2Model ----
(***************************************************************************)
(* A model of the PATCO schedule services: the trip store built by the     *)
(* StoreDataInDynamoDB Lambda, the QueryScheduleAPI Lambda that answers    *)
(* station-to-station queries from it, and the text normalizer of the      *)
(* ConvertPdfToTxt Lambda.                                                 *)
(*                                                                         *)
(* A Python str is a sequence of one-character strings, so that parsing,   *)
(* splitting and formatting are computed and not assumed.                  *)
(***************************************************************************)
EXTENDS Integers, Sequences, FiniteSets, TLC

VARIABLES
    time_str,      \* convert_time_to_sortable: its argument
    time_fields,   \* the (hour, minute, meridiem) time_str was written from, or NoFields
    sortable,      \* convert_time_to_sortable: its result, or NotComputed
    tables,        \* the DynamoDB tables: direction -> (key -> segment item)
    loaded,        \* per direction, the rows of the CSV last processed
    request,       \* the query string parameters of the last API request
    response,      \* the response lambda_handler returned for it
    scanned,       \* whether that invocation scanned a table
    raw_text,      \* _process_text: its argument
    columns_text,  \* the text _process_text handed to _normalize_to_14_columns
    csv_text,      \* _process_text: its result
    runs,          \* how many times _process_text has run
    pdf_text,      \* ConvertPdfToTxt: the text extracted from the PDF
    event,         \* the event of the run and what went wrong in it
    locals,        \* what lambda_handler had computed when it started writing
    stored,        \* the schedule objects written, per direction
    outcome,       \* "idle", or how the run ended: "returned" or "raised"
    row_columns,   \* _fix_missing_am_pm: the columns of a line of its text
    bare_index,    \* _infer_am_pm_suffix: its current_index into row_columns
    am_pm_suffix,  \* _infer_am_pm_suffix: its result, or NoSuffix
    fixed_columns, \* the columns of the line _fix_missing_am_pm returned
    ingest,        \* StoreDataInDynamoDB: the object of its last event, or NoIngest
    handed,        \* the batches that run handed to batch_write_to_dynamodb
    store_status,  \* the statusCode that run returned, 0 before any run
    processed,     \* per schedule date: the tables its runs alone would build
    pdf_puts,      \* per date: the put_object calls on its special_schedule.pdf
    csv_objects,   \* the special-schedule CSV objects in the bucket
    producers,     \* where each program that writes to the bucket stands
    readers,       \* where each download endpoint stands, and its answer
    closed_text,   \* _fix_closed_formatting: its argument
    closed_fixed,  \* _fix_closed_formatting: its result, or NotFixed
    extracted_text, \* the text both converters are given
    converted      \* what each of them made of it, or NotConverted

vars == <<time_str, time_fields, sortable, tables, loaded, request, response,
          scanned, raw_text, columns_text, csv_text, runs, pdf_text, event,
          locals, stored, outcome, row_columns, bare_index, am_pm_suffix,
          fixed_columns, ingest, handed, store_status, processed, pdf_puts,
          csv_objects, producers, readers, closed_text, closed_fixed,
          extracted_text, converted>>

convVars == <<time_str, time_fields, sortable>>

queryVars == <<tables, loaded, request, response, scanned>>

normVars == <<raw_text, columns_text, csv_text, runs>>

pipeVars == <<pdf_text, event, locals, stored, outcome>>

inferVars == <<row_columns, bare_index, am_pm_suffix, fixed_columns>>

storeVars == <<ingest, handed, store_status, processed>>

fileVars == <<pdf_puts, csv_objects, producers, readers>>

closedVars == <<closed_text, closed_fixed>>

portVars == <<extracted_text, converted>>

-----------------------------------------------------------------------------
(* Python str primitives                                                   *)

DigitChars == <<"0", "1", "2", "3", "4", "5", "6", "7", "8", "9">>

IsDigit(c) == \E i \in 1..10 : DigitChars[i] = c

DigitVal(c) == (CHOOSE i \in 1..10 : DigitChars[i] = c) - 1

\* The characters str.strip() removes (those of them the model's texts use).
Whitespace == {" ", "\t", "\r", "\n"}

RECURSIVE LStrip(_)
LStrip(s) ==
    IF s # <<>> /\ Head(s) \in Whitespace THEN LStrip(Tail(s)) ELSE s

RECURSIVE RStrip(_)
RStrip(s) ==
    IF s # <<>> /\ s[Len(s)] \in Whitespace
    THEN RStrip(SubSeq(s, 1, Len(s) - 1))
    ELSE s

\* str.strip()
Strip(s) == RStrip(LStrip(s))

\* str.split(sep) for a one-character sep: the pieces between the
\* occurrences of sep, always at least one piece.
Split(s, sep) ==
    LET at == SelectSeq([i \in 1..Len(s) |-> i], LAMBDA i : s[i] = sep)
        n == Len(at)
    IN  [k \in 1..n + 1 |->
            SubSeq(s, IF k = 1 THEN 1 ELSE at[k - 1] + 1,
                      IF k = n + 1 THEN Len(s) ELSE at[k] - 1)]

\* ''.join(parts): the parts one after the other.
RECURSIVE Concat(_)
Concat(parts) ==
    IF Len(parts) = 0 THEN <<>>
    ELSE IF Len(parts) = 1 THEN parts[1]
    ELSE LET half == Len(parts) \div 2
         IN  Concat(SubSeq(parts, 1, half))
                 \o Concat(SubSeq(parts, half + 1, Len(parts)))

\* sep.join(parts)
Join(parts, sep) ==
    Concat([k \in 1..Len(parts) |->
               IF k = 1 THEN parts[k] ELSE <<sep>> \o parts[k]])

\* str.replace(old, new) for a one-character old
Replace(s, old, new) ==
    Concat([i \in 1..Len(s) |-> IF s[i] = old THEN new ELSE <<s[i]>>])

Contains(s, c) == \E i \in 1..Len(s) : s[i] = c

RECURSIVE DigitsValue(_, _)
DigitsValue(s, acc) ==
    IF s = <<>> THEN acc ELSE DigitsValue(Tail(s), 10 * acc + DigitVal(Head(s)))

\* int(s): surrounding whitespace and one sign are accepted; anything else
\* than decimal digits raises ValueError (ok = FALSE).
ParseInt(s) ==
    LET t == Strip(s)
        signed == t # <<>> /\ Head(t) \in {"+", "-"}
        body == IF signed THEN Tail(t) ELSE t
        ok == body # <<>> /\ \A i \in 1..Len(body) : IsDigit(body[i])
    IN  IF ~ok THEN [ok |-> FALSE, val |-> 0]
        ELSE [ok |-> TRUE,
              val |-> IF signed /\ Head(t) = "-"
                      THEN 0 - DigitsValue(body, 0)
                      ELSE DigitsValue(body, 0)]

CLOSED == <<"C", "L", "O", "S", "E", "D">>

-----------------------------------------------------------------------------
(* QueryScheduleAPI: convert_time_to_sortable                              *)

\* The value returned for CLOSED, empty and unparseable strings.
ClosedSortKey == 9999

\* One past the largest hour of the 12-hour clock's afternoon shift.
HalfDay == 12

MinutesPerHour == 60

To24HourMutant(hour, am_pm) ==
    IF am_pm = "P" THEN hour + HalfDay ELSE hour

\* "Convert to 24-hour format"
To24Hour(hour, am_pm) ==
    IF am_pm = "P" /\ hour # HalfDay THEN hour + HalfDay
    ELSE IF am_pm = "A" /\ hour = HalfDay THEN 0
    ELSE hour

convert_time_to_sortable(s) ==
    IF s = CLOSED \/ s = <<>> THEN ClosedSortKey
    ELSE IF s[Len(s)] \notin {"A", "P"} THEN ClosedSortKey
    ELSE
        LET am_pm == s[Len(s)]
            time_part == SubSeq(s, 1, Len(s) - 1)
        IN  IF Contains(time_part, ":")
            THEN LET parts == Split(time_part, ":")
                 IN  IF Len(parts) # 2 THEN ClosedSortKey
                     ELSE LET hour == ParseInt(parts[1])
                              minute == ParseInt(parts[2])
                          IN  IF ~hour.ok \/ ~minute.ok THEN ClosedSortKey
                              ELSE To24Hour(hour.val, am_pm) * MinutesPerHour
                                   + minute.val
            ELSE LET hour == ParseInt(time_part)
                 IN  IF ~hour.ok THEN ClosedSortKey
                     ELSE To24Hour(hour.val, am_pm) * MinutesPerHour

-----------------------------------------------------------------------------
(* StoreDataInDynamoDB: the station registries and process_csv_to_dynamodb *)

PATCO_STATIONS_WESTBOUND ==
    << "15th-16th & Locust", "12th-13th & Locust", "9th-10th & Locust",
       "8th & Market", "City Hall", "Broadway", "Franklin Square",
       "Collingswood", "Westmont", "Haddonfield", "Woodcrest", "Ashland",
       "Woodlyn", "Lindenwold" >>

Reversed(s) == [i \in 1..Len(s) |-> s[Len(s) + 1 - i]]

PATCO_STATIONS_EASTBOUND == Reversed(PATCO_STATIONS_WESTBOUND)

Directions == {"westbound", "eastbound"}

\* lambda_handler of StoreDataInDynamoDB: the registry chosen from the key.
StationsOf(direction) ==
    IF direction = "eastbound" THEN PATCO_STATIONS_EASTBOUND
    ELSE PATCO_STATIONS_WESTBOUND

\* Items per batch_write_to_dynamodb call.
BatchSize == 25

\* csv.reader over csv_content.strip().split('\n'): one row per line, an
\* empty line giving the empty row (the texts modelled hold no quotes).
CsvRows(csv_content) ==
    LET lines == Split(Strip(csv_content), "\n")
    IN  [r \in 1..Len(lines) |->
            IF lines[r] = <<>> THEN <<>> ELSE Split(lines[r], ",")]

\* f"{direction}-trip-{trip_counter:04d}": one id per (direction, counter).
TripId(direction, trip_counter) == <<direction, trip_counter>>

\* f"{i}-{i+1}"
SegmentId(i) == <<i, i + 1>>

\* 'is_valid' of a segment record.
SegmentValid(source_time, destination_time) ==
    source_time # CLOSED /\ destination_time # CLOSED

\* The segment record built for station pair (i, i+1) of a row; station
\* indices count from 0 as in the source.
Segment(row, i, trip_counter, stations, direction) ==
    LET source_time == Strip(row[i + 1])
        destination_time == Strip(row[i + 2])
    IN  [ trip_id |-> TripId(direction, trip_counter),
          segment_id |-> SegmentId(i),
          departure_time |-> source_time,
          arrival_time |-> destination_time,
          source_station_index |-> i,
          destination_station_index |-> i + 1,
          source_station_name |-> stations[i + 1],
          destination_station_name |-> stations[i + 2],
          is_valid |-> SegmentValid(source_time, destination_time),
          direction |-> direction ]

\* stations[i + 1] raises IndexError once i + 1 reaches len(stations).
RowRaises(row, stations) == Len(row) - 1 > Len(stations) - 1

\* The segments a row appends to batch_items before it ends or raises.
RowSegments(row, trip_counter, stations, direction) ==
    LET n == IF RowRaises(row, stations) THEN Len(stations) - 1
             ELSE IF Len(row) = 0 THEN 0 ELSE Len(row) - 1
    IN  [k \in 1..n |-> Segment(row, k - 1, trip_counter, stations, direction)]

\* Every segment appended, row after row, up to the first row that raises.
RECURSIVE AppendedFrom(_, _, _, _)
AppendedFrom(rows, r, stations, direction) ==
    IF r > Len(rows) THEN <<>>
    ELSE RowSegments(rows[r], r, stations, direction)
         \o (IF RowRaises(rows[r], stations) THEN <<>>
             ELSE AppendedFrom(rows, r + 1, stations, direction))

ProcessRaises(rows, stations) ==
    \E r \in 1..Len(rows) : RowRaises(rows[r], stations)

\* A variant without the write of the remaining items after the loop.
BatchesMutant(items, raised) ==
    [b \in 1..(Len(items) \div BatchSize) |->
        SubSeq(items, (b - 1) * BatchSize + 1, b * BatchSize)]

\* The batches handed to batch_write_to_dynamodb: one per 25 items as they
\* accumulate, and the remainder after the loop unless the loop raised.
Batches(items, raised) ==
    LET full == Len(items) \div BatchSize
        rest == Len(items) % BatchSize
        whole == [b \in 1..full |->
                    SubSeq(items, (b - 1) * BatchSize + 1, b * BatchSize)]
    IN  IF rest = 0 \/ raised THEN whole
        ELSE Append(whole, SubSeq(items, full * BatchSize + 1, Len(items)))

ItemKey(item) == <<item.trip_id, item.segment_id>>

\* batch.put_item of every item of a batch: an item replaces the one stored
\* under the same (trip_id, segment_id) key.
PutItems(table, items) ==
    LET keys == {ItemKey(items[k]) : k \in 1..Len(items)}
    IN  [key \in DOMAIN table \cup keys |->
            IF key \in keys
            THEN items[CHOOSE k \in 1..Len(items) :
                          /\ ItemKey(items[k]) = key
                          /\ \A j \in k + 1..Len(items) : ItemKey(items[j]) # key]
            ELSE table[key]]

RECURSIVE WriteBatches(_, _)
WriteBatches(table, batches) ==
    IF batches = <<>> THEN table
    ELSE WriteBatches(PutItems(table, Head(batches)), Tail(batches))

\* The table after process_csv_to_dynamodb(csv_content, ...) ran on it.
process_csv_to_dynamodb(table, csv_content, stations, direction) ==
    LET rows == CsvRows(csv_content)
        raised == ProcessRaises(rows, stations)
        items == AppendedFrom(rows, 1, stations, direction)
    IN  WriteBatches(table, Batches(items, raised))

EmptyTable == [key \in {} |-> 0]

-----------------------------------------------------------------------------
(* QueryScheduleAPI: query_trips_between_stations and lambda_handler       *)

TripIdsOf(table) == {key[1] : key \in DOMAIN table}

SegmentsOf(table, trip_id) ==
    {table[key] : key \in {k \in DOMAIN table : k[1] = trip_id}}

NotFound == [found |-> FALSE, time |-> <<>>, name |-> ""]

\* The first of the matching segments, in source-station order.
FirstSegment(hits) ==
    CHOOSE seg \in hits :
        \A other \in hits :
            seg.source_station_index <= other.source_station_index

\* "Find departure time at source station"
SourceLookup(segments, source_station_index) ==
    LET ok(seg) == /\ seg.source_station_index = source_station_index
                   /\ seg.is_valid
                   /\ seg.departure_time # CLOSED
    IN  IF \E seg \in segments : ok(seg)
        THEN LET seg == FirstSegment({s \in segments : ok(s)})
             IN  [found |-> TRUE, time |-> seg.departure_time,
                  name |-> seg.source_station_name]
        ELSE NotFound

\* "Find arrival time at destination station"
DestinationLookup(segments, destination_station_index) ==
    LET ok(seg) == /\ seg.destination_station_index = destination_station_index
                   /\ seg.is_valid
                   /\ seg.arrival_time # CLOSED
    IN  IF \E seg \in segments : ok(seg)
        THEN LET seg == FirstSegment({s \in segments : ok(s)})
             IN  [found |-> TRUE, time |-> seg.arrival_time,
                  name |-> seg.destination_station_name]
        ELSE NotFound

\* Python truth of a looked-up string: found, and not empty.
Truthy(lookup) == lookup.found /\ lookup.time # <<>>

ValidDirectionMutant(direction, source_station_index, destination_station_index) ==
    source_station_index # destination_station_index

ValidDirection(direction, source_station_index, destination_station_index) ==
    \/ direction = "westbound" /\ source_station_index < destination_station_index
    \/ direction = "eastbound" /\ source_station_index > destination_station_index

\* The entries appended to valid_trips, trip after trip in the order the
\* scan first delivers each trip_id.
RECURSIVE ValidTrips(_, _, _, _, _)
ValidTrips(table, order, source_station_index, destination_station_index, direction) ==
    IF order = <<>> THEN <<>>
    ELSE
        LET trip_id == Head(order)
            segments == SegmentsOf(table, trip_id)
            src == SourceLookup(segments, source_station_index)
            dst == DestinationLookup(segments, destination_station_index)
            rest == ValidTrips(table, Tail(order), source_station_index,
                               destination_station_index, direction)
        IN  IF /\ Truthy(src)
               /\ Truthy(dst)
               /\ ValidDirection(direction, source_station_index,
                                 destination_station_index)
            THEN << [ departure_time |-> src.time,
                      arrival_time |-> dst.time,
                      source_station |-> src.name,
                      destination_station |-> dst.name,
                      trip_id |-> trip_id,
                      direction |-> direction ] >> \o rest
            ELSE rest

DepartureKey(trip) == convert_time_to_sortable(trip.departure_time)

\* list.sort(key=...) is stable: an entry goes before the first sorted entry
\* whose key is not smaller, entries being inserted from the last to the first.
RECURSIVE InsertSorted(_, _)
InsertSorted(x, sorted) ==
    IF sorted = <<>> THEN <<x>>
    ELSE IF DepartureKey(x) <= DepartureKey(Head(sorted)) THEN <<x>> \o sorted
    ELSE <<Head(sorted)>> \o InsertSorted(x, Tail(sorted))

RECURSIVE StableSort(_)
StableSort(s) ==
    IF s = <<>> THEN <<>>
    ELSE InsertSorted(Head(s), StableSort(Tail(s)))

SortTripsMutant(valid_trips) == valid_trips

\* valid_trips.sort(key=lambda x: convert_time_to_sortable(x['departure_time']))
SortTrips(valid_trips) == StableSort(valid_trips)

query_trips_between_stations(table, order, source_station_index, destination_station_index, direction) ==
    SortTrips(ValidTrips(table, order, source_station_index,
                         destination_station_index, direction))

\* scripts/test_dynamodb_processing.py: the time its query finds at the
\* source station of a trip, and the time at the destination station.
ScriptSourceTime(segments, source_station_index) ==
    LET hits == {seg \in segments :
                    /\ seg.source_station_index = source_station_index
                    /\ seg.is_valid}
    IN  IF hits = {} THEN <<>> ELSE FirstSegment(hits).departure_time

ScriptDestinationTime(segments, destination_station_index) ==
    LET hits == {seg \in segments :
                    /\ seg.destination_station_index = destination_station_index
                    /\ seg.is_valid}
    IN  IF hits = {} THEN <<>> ELSE FirstSegment(hits).arrival_time

\* The trips matching_trips holds when the script's
\* query_trips_between_stations returns, for the records of `table`.
ScriptMatchingTrips(table, source_station_index, destination_station_index) ==
    { [ departure_time |->
            ScriptSourceTime(SegmentsOf(table, trip_id), source_station_index),
        arrival_time |->
            ScriptDestinationTime(SegmentsOf(table, trip_id),
                                  destination_station_index),
        source_station |->
            (CHOOSE seg \in SegmentsOf(table, trip_id) :
                seg.source_station_index = source_station_index
            ).source_station_name,
        destination_station |->
            (CHOOSE seg \in SegmentsOf(table, trip_id) :
                seg.destination_station_index = destination_station_index
            ).destination_station_name,
        trip_id |-> trip_id ] :
      trip_id \in
        { id \in TripIdsOf(table) :
            LET segments == SegmentsOf(table, id)
                source_time == ScriptSourceTime(segments, source_station_index)
                destination_time ==
                    ScriptDestinationTime(segments, destination_station_index)
            IN  /\ source_time # <<>>
                /\ destination_time # <<>>
                /\ source_time # CLOSED
                /\ destination_time # CLOSED
                /\ \E seg \in segments :
                       seg.source_station_index = source_station_index
                /\ \E seg \in segments :
                       seg.destination_station_index = destination_station_index } }

\* A query string parameter that the request does not carry.
Absent == <<"(absent)">>

UpperChars ==
    << "A", "B", "C", "D", "E", "F", "G", "H", "I", "J", "K", "L", "M",
       "N", "O", "P", "Q", "R", "S", "T", "U", "V", "W", "X", "Y", "Z" >>

LowerChars ==
    << "a", "b", "c", "d", "e", "f", "g", "h", "i", "j", "k", "l", "m",
       "n", "o", "p", "q", "r", "s", "t", "u", "v", "w", "x", "y", "z" >>

LowerChar(c) ==
    IF \E i \in 1..Len(UpperChars) : UpperChars[i] = c
    THEN LowerChars[CHOOSE i \in 1..Len(UpperChars) : UpperChars[i] = c]
    ELSE c

\* str.lower()
Lower(s) == [i \in 1..Len(s) |-> LowerChar(s[i])]

WestboundChars == <<"w", "e", "s", "t", "b", "o", "u", "n", "d">>

EastboundChars == <<"e", "a", "s", "t", "b", "o", "u", "n", "d">>

\* The largest station index lambda_handler accepts.
MaxStationIndex == 13

ErrDirection == "Direction must be eastbound or westbound"

ErrIndices == "Station indices must be between 0 and 13"

ErrSame == "Source and destination stations must be different"

ErrValue == "Invalid parameter: invalid literal for int() with base 10"

BadRequest(message) == [statusCode |-> 400, body |-> [error |-> message]]

IndicesInRangeMutant(source_station_index, destination_station_index) ==
    /\ 0 <= source_station_index /\ source_station_index <= MaxStationIndex + 1
    /\ 0 <= destination_station_index
    /\ destination_station_index <= MaxStationIndex + 1

IndicesInRange(source_station_index, destination_station_index) ==
    /\ 0 <= source_station_index /\ source_station_index <= MaxStationIndex
    /\ 0 <= destination_station_index
    /\ destination_station_index <= MaxStationIndex

\* lambda_handler of QueryScheduleAPI on the query string parameters
\* `params`, the scan delivering the trips of the table in `order`:
\* the response, and whether query_trips_between_stations was called.
lambda_handler(params, db, order) ==
    LET source == IF params.source_station_index = Absent
                  THEN [ok |-> TRUE, val |-> 0]
                  ELSE ParseInt(params.source_station_index)
        destination == IF params.destination_station_index = Absent
                       THEN [ok |-> TRUE, val |-> 1]
                       ELSE ParseInt(params.destination_station_index)
        direction == IF params.direction = Absent THEN WestboundChars
                     ELSE Lower(params.direction)
        name == IF direction = EastboundChars THEN "eastbound" ELSE "westbound"
    IN  IF ~source.ok \/ ~destination.ok
        THEN [response |-> BadRequest(ErrValue), scanned |-> FALSE]
        ELSE IF direction \notin {EastboundChars, WestboundChars}
        THEN [response |-> BadRequest(ErrDirection), scanned |-> FALSE]
        ELSE IF ~IndicesInRange(source.val, destination.val)
        THEN [response |-> BadRequest(ErrIndices), scanned |-> FALSE]
        ELSE IF source.val = destination.val
        THEN [response |-> BadRequest(ErrSame), scanned |-> FALSE]
        ELSE
            LET trips == query_trips_between_stations(
                             db[name], order, source.val, destination.val, name)
            IN  [ response |->
                    [ statusCode |-> 200,
                      body |-> [ trips |-> trips,
                                 total_count |-> Len(trips),
                                 query |-> [ source_station_index |-> source.val,
                                             destination_station_index |-> destination.val,
                                             direction |-> name ] ] ],
                  scanned |-> TRUE ]

\* The table lambda_handler scans for `params`, when it scans one.
ScannedTable(params) ==
    IF params.direction # Absent /\ Lower(params.direction) = EastboundChars
    THEN "eastbound" ELSE "westbound"

\* Every order in which a scan can first deliver the trips of a table.
RECURSIVE Orders(_)
Orders(ids) ==
    IF ids = {} THEN {<<>>}
    ELSE UNION {{<<id>> \o rest : rest \in Orders(ids \ {id})} : id \in ids}

-----------------------------------------------------------------------------
(* ConvertPdfToTxt: _process_text and its steps                            *)

\* The glyph the PDF prints where a train does not stop.
ClosedGlyph == "à"

\* The glyph the PDF prints as a row marker.
MarkerGlyph == "►"

NormalizedColumns == 14

\* A match of (\d{1,2}:\d{2}[AP]) ends at position e of the text.  Two
\* matches cannot overlap (the letter that ends one is no digit), so the
\* matches re.sub finds are exactly these.
TimeEndsAt(text, e) ==
    /\ e >= 5
    /\ text[e] \in {"A", "P"}
    /\ IsDigit(text[e - 1])
    /\ IsDigit(text[e - 2])
    /\ text[e - 3] = ":"
    /\ IsDigit(text[e - 4])

\* "Add commas after time patterns": re.sub(r'(\d{1,2}:\d{2}[AP])', r'\1,')
AddCommasAfterTimes(text) ==
    Concat([e \in 1..Len(text) |->
               IF TimeEndsAt(text, e) THEN <<text[e], ",">> ELSE <<text[e]>>])

\* The letters of the class [0-9:,AP►à\n\r\tCLOSED].
AllowedLetters == {"A", "P", "C", "L", "O", "S", "E", "D"}

IsLetter(c) ==
    \E i \in 1..26 : UpperChars[i] = c \/ LowerChars[i] = c

\* The test of _filter_valid_lines on one line: blank, or no letter is left
\* once the characters of the class are removed.
KeepsLine(line) ==
    \/ Strip(line) = <<>>
    \/ ~\E i \in 1..Len(line) :
            IsLetter(line[i]) /\ line[i] \notin AllowedLetters

_filter_valid_lines(text) ==
    Join(SelectSeq(Split(text, "\n"), KeepsLine), "\n")

ClosedAt(line, p) ==
    /\ p >= 1
    /\ p + 5 <= Len(line)
    /\ SubSeq(line, p, p + 5) = CLOSED

\* re.sub replaces the non-overlapping matches of ([^,])CLOSED from the
\* left: the CLOSED at p is matched with the character before it unless
\* that character is a comma or is the D of a CLOSED already matched.
RECURSIVE ClosedMatchedAt(_, _)
ClosedMatchedAt(line, p) ==
    /\ p > 1
    /\ ClosedAt(line, p)
    /\ line[p - 1] # ","
    /\ ~ClosedMatchedAt(line, p - 6)

FixClosedLine(line) ==
    Concat([p \in 1..Len(line) |->
               IF ClosedMatchedAt(line, p) THEN <<",", line[p]>>
               ELSE <<line[p]>>])

_fix_closed_formatting(text) ==
    LET lines == Split(text, "\n")
    IN  Join([k \in 1..Len(lines) |-> FixClosedLine(lines[k])], "\n")

\* re.match(r'^\d{1,2}:\d{2}$', col)
IsBareTime(col) ==
    /\ Len(col) \in {4, 5}
    /\ IsDigit(col[Len(col)])
    /\ IsDigit(col[Len(col) - 1])
    /\ col[Len(col) - 2] = ":"
    /\ \A i \in 1..Len(col) - 3 : IsDigit(col[i])

\* re.match(r'^\d{1,2}:\d{2}[AP]$', col)
IsSuffixedTime(col) ==
    /\ Len(col) \in {5, 6}
    /\ col[Len(col)] \in {"A", "P"}
    /\ IsBareTime(SubSeq(col, 1, Len(col) - 1))

\* int(time.split(':')[0]) of a column that matched one of the two patterns
HourOf(col) == ParseInt(Split(col, ":")[1]).val

OtherSuffixMutant(suffix) == suffix

OtherSuffix(suffix) == IF suffix = "A" THEN "P" ELSE "A"

MaxHourGap == 2

LastMorningHour == 11

_infer_am_pm_suffix(columns, current_index) ==
    LET current_hour == HourOf(Strip(columns[current_index]))
        before == {i \in 1..current_index - 1 :
                      IsSuffixedTime(Strip(columns[i]))}
        after == {i \in current_index + 1..Len(columns) :
                     IsSuffixedTime(Strip(columns[i]))}
    IN  IF before # {}
        THEN LET col == Strip(columns[CHOOSE i \in before :
                                          \A j \in before : j <= i])
                 prev_suffix == col[Len(col)]
                 prev_hour == HourOf(col)
             IN  IF \/ current_hour >= prev_hour
                    \/ prev_hour - current_hour <= MaxHourGap
                 THEN prev_suffix
                 ELSE OtherSuffix(prev_suffix)
        ELSE IF after # {}
        THEN LET col == Strip(columns[CHOOSE i \in after :
                                          \A j \in after : i <= j])
                 next_suffix == col[Len(col)]
                 next_hour == HourOf(col)
             IN  IF \/ current_hour <= next_hour
                    \/ current_hour - next_hour <= MaxHourGap
                 THEN next_suffix
                 ELSE OtherSuffix(next_suffix)
        ELSE IF current_hour <= LastMorningHour THEN "A" ELSE "P"

\* The loop over the columns of one line, from column i on; a column fixed
\* earlier is seen with its suffix by the columns after it.
RECURSIVE FixColumnsFrom(_, _)
FixColumnsFrom(columns, i) ==
    IF i > Len(columns) THEN columns
    ELSE LET col == Strip(columns[i])
         IN  IF IsBareTime(col)
             THEN FixColumnsFrom(
                      [columns EXCEPT
                          ![i] = col \o <<_infer_am_pm_suffix(columns, i)>>],
                      i + 1)
             ELSE FixColumnsFrom(columns, i + 1)

FixSuffixLine(line) ==
    IF Strip(line) = <<>> THEN line
    ELSE Join(FixColumnsFrom(Split(line, ","), 1), ",")

_fix_missing_am_pm(text) ==
    LET lines == Split(text, "\n")
    IN  Join([k \in 1..Len(lines) |-> FixSuffixLine(lines[k])], "\n")

\* [col for col in line.split(',') if col]
NonEmptyColumns(line) == SelectSeq(Split(line, ","), LAMBDA col : col # <<>>)

ExtraColumnsMutant(columns) == <<>>

\* "Keep any extra columns for the next line"
ExtraColumns(columns) == SubSeq(columns, NormalizedColumns + 1, Len(columns))

\* The while loop of _normalize_to_14_columns from line i on: at most one
\* complete line is written per input line.
RECURSIVE NormalizeFrom(_, _, _, _)
NormalizeFrom(lines, i, current_line_columns, normalized_lines) ==
    IF i > Len(lines)
    THEN IF current_line_columns # <<>>
         THEN Append(normalized_lines, Join(current_line_columns, ","))
         ELSE normalized_lines
    ELSE LET line == Strip(lines[i])
             columns == current_line_columns \o NonEmptyColumns(line)
         IN  IF line = <<>>
             THEN NormalizeFrom(lines, i + 1, current_line_columns,
                                normalized_lines)
             ELSE IF Len(columns) >= NormalizedColumns
             THEN NormalizeFrom(lines, i + 1,
                      ExtraColumns(columns),
                      Append(normalized_lines,
                             Join(SubSeq(columns, 1, NormalizedColumns), ",")))
             ELSE NormalizeFrom(lines, i + 1, columns, normalized_lines)

_normalize_to_14_columns(text) ==
    Join(NormalizeFrom(Split(text, "\n"), 1, <<>>, <<>>), "\n")

\* Steps 1 to 3 of _process_text: the text handed to _filter_valid_lines.
PackedText(text) ==
    LET glyphs == Replace(Replace(text, MarkerGlyph, <<>>),
                          ClosedGlyph, CLOSED \o <<",">>)
        packed == Replace(Replace(glyphs, " ", <<>>), "\t", <<>>)
    IN  AddCommasAfterTimes(packed)

\* Steps 1 to 6 of _process_text: the text handed to step 7.
CleanText(text) ==
    _fix_missing_am_pm(
        _fix_closed_formatting(_filter_valid_lines(PackedText(text))))

_process_text(text) == _normalize_to_14_columns(CleanText(text))

-----------------------------------------------------------------------------
(* ConvertPdfToTxt: the direction split, the difference flags and          *)
(* lambda_handler                                                          *)

\* The columns of a line that are neither empty nor CLOSED, stripped.
TimeColumns(columns) ==
    SelectSeq([j \in 1..Len(columns) |-> Strip(columns[j])],
              LAMBDA col : col # <<>> /\ col # CLOSED)

\* re.match(r'^\d{1,2}:\d{2}P$', col)
IsPmTime(col) == IsSuffixedTime(col) /\ col[Len(col)] = "P"

\* re.match(r'^\d{1,2}:\d{2}A$', col)
IsAmTime(col) == IsSuffixedTime(col) /\ col[Len(col)] = "A"

\* "Check if we found the P->A transition" between line i and the next.
TransitionAfter(lines, i) ==
    LET current_line == Strip(lines[i])
        next_line == Strip(lines[i + 1])
        last_times == TimeColumns(Split(current_line, ","))
        first_times == TimeColumns(Split(next_line, ","))
    IN  /\ current_line # <<>>
        /\ next_line # <<>>
        /\ last_times # <<>>
        /\ first_times # <<>>
        /\ IsPmTime(last_times[Len(last_times)])
        /\ IsAmTime(first_times[1])

SplitIndexMutant(lines) ==
    LET found == {i \in 1..Len(lines) - 1 : TransitionAfter(lines, i)}
    IN  IF found = {} THEN 0
        ELSE CHOOSE i \in found : \A j \in found : j <= i

\* split_index, the number of lines before the split; 0 stands for None.
SplitIndex(lines) ==
    LET found == {i \in 1..Len(lines) - 1 : TransitionAfter(lines, i)}
    IN  IF found = {} THEN 0
        ELSE CHOOSE i \in found : \A j \in found : i <= j

_clean_empty_lines(lines) ==
    LET kept == {k \in 1..Len(lines) : Strip(lines[k]) # <<>>}
    IN  IF kept = {} THEN <<>>
        ELSE SubSeq(lines, CHOOSE k \in kept : \A j \in kept : k <= j,
                           CHOOSE k \in kept : \A j \in kept : j <= k)

_split_westbound_eastbound(text) ==
    LET lines == Split(text, "\n")
        split_index == SplitIndex(lines)
    IN  IF split_index # 0
        THEN [westbound |->
                  Join(_clean_empty_lines(SubSeq(lines, 1, split_index)), "\n"),
              eastbound |->
                  Join(_clean_empty_lines(
                           SubSeq(lines, split_index + 1, Len(lines))), "\n")]
        ELSE [westbound |-> text, eastbound |-> <<>>]

-----------------------------------------------------------------------------
(* rockpi/src/convert_pdf_to_csv.py: the converter of the Rock Pi          *)

\* w in s
HasSubstring(s, w) ==
    \E p \in 1..Len(s) - Len(w) + 1 : SubSeq(s, p, p + Len(w) - 1) = w

\* re.search(r'\d{1,2}:\d{2}[AP]?', line)
HasTimePattern(line) ==
    \E i \in 1..Len(line) - 3 :
        /\ IsDigit(line[i])
        /\ line[i + 1] = ":"
        /\ IsDigit(line[i + 2])
        /\ IsDigit(line[i + 3])

\* The test of filter_valid_lines on one line.
RockPiKeepsLine(line) ==
    /\ Strip(line) # <<>>
    /\ HasTimePattern(line) \/ HasSubstring(line, CLOSED)
    /\ Contains(line, ",") \/ \E i \in 1..Len(line) : IsDigit(line[i])

filter_valid_lines(text) ==
    Join(SelectSeq(Split(text, "\n"), RockPiKeepsLine), "\n")

\* re.sub(r'(?<!,)CLOSED', r',CLOSED', line): a comma before every CLOSED
\* that no comma precedes, the one that opens the line included.
CommaBeforeClosed(line) ==
    Concat([p \in 1..Len(line) |->
               IF ClosedAt(line, p) /\ (p = 1 \/ line[p - 1] # ",")
               THEN <<",", line[p]>>
               ELSE <<line[p]>>])

\* re.sub(r',+', ',', line)
CollapseCommas(line) ==
    Concat([p \in 1..Len(line) |->
               IF p > 1 /\ line[p] = "," /\ line[p - 1] = ","
               THEN <<>>
               ELSE <<line[p]>>])

fix_closed_formatting(text) ==
    LET lines == Split(text, "\n")
    IN  Join([k \in 1..Len(lines) |->
                 CollapseCommas(CommaBeforeClosed(lines[k]))], "\n")

\* re.search(r'\d{1,2}:\d{2}[AP]', col)
HasSuffixedTime(col) == \E e \in 1..Len(col) : TimeEndsAt(col, e)

\* The last character of the first column with a suffixed time among the
\* two before and the two after current_index, or 'A'.
infer_am_pm_suffix(columns, current_index) ==
    LET near == {i \in 1..Len(columns) :
                    /\ i # current_index
                    /\ i >= current_index - 2
                    /\ i <= current_index + 2
                    /\ HasSuffixedTime(Strip(columns[i]))}
    IN  IF near = {} THEN "A"
        ELSE LET col == Strip(columns[CHOOSE i \in near :
                                          \A j \in near : i <= j])
             IN  col[Len(col)]

\* The loop over the columns of one line, from column i on.
RECURSIVE RockPiFixColumnsFrom(_, _)
RockPiFixColumnsFrom(columns, i) ==
    IF i > Len(columns) THEN columns
    ELSE IF IsBareTime(Strip(columns[i]))
    THEN RockPiFixColumnsFrom(
             [columns EXCEPT ![i] =
                 Append(Strip(columns[i]), infer_am_pm_suffix(columns, i))],
             i + 1)
    ELSE RockPiFixColumnsFrom(columns, i + 1)

fix_missing_am_pm(text) ==
    LET lines == Split(text, "\n")
    IN  Join([k \in 1..Len(lines) |->
                 Join(RockPiFixColumnsFrom(Split(lines[k], ","), 1), ",")],
             "\n")

\* "Pad or trim to 14 columns"
PadOrTrim(columns) ==
    IF Len(columns) < NormalizedColumns
    THEN columns \o [j \in 1..NormalizedColumns - Len(columns) |-> CLOSED]
    ELSE SubSeq(columns, 1, NormalizedColumns)

normalize_to_14_columns(text) ==
    LET lines == Split(text, "\n")
        stripped(line) == [j \in 1..Len(Split(line, ",")) |->
                              Strip(Split(line, ",")[j])]
    IN  Join([k \in 1..Len(lines) |->
                 Join(PadOrTrim(SelectSeq(stripped(lines[k]),
                                          LAMBDA col : col # <<>>)), ",")],
             "\n")

process_text(text) ==
    normalize_to_14_columns(
        fix_missing_am_pm(
            fix_closed_formatting(filter_valid_lines(PackedText(text)))))

EastChars == <<"e", "a", "s", "t">>

PhiladelphiaChars ==
    <<"p", "h", "i", "l", "a", "d", "e", "l", "p", "h", "i", "a">>

\* 'east' in line.lower() or 'philadelphia' in line.lower()
IsEastboundMarker(line) ==
    \/ HasSubstring(Lower(line), EastChars)
    \/ HasSubstring(Lower(line), PhiladelphiaChars)

\* "Remove empty lines and return as text."
clean_empty_lines(lines) ==
    Join(SelectSeq(lines, LAMBDA line : Strip(line) # <<>>), "\n")

split_westbound_eastbound(text) ==
    LET lines == Split(text, "\n")
        markers == {k \in 1..Len(lines) : IsEastboundMarker(lines[k])}
        first_marker == CHOOSE k \in markers : \A j \in markers : k <= j
        unmarked(from, to) ==
            SelectSeq(SubSeq(lines, from, to),
                      LAMBDA line : ~IsEastboundMarker(line))
        mid_point == Len(lines) \div 2
    IN  IF markers # {}
        THEN [westbound |-> clean_empty_lines(SubSeq(lines, 1, first_marker - 1)),
              eastbound |->
                  clean_empty_lines(unmarked(first_marker + 1, Len(lines)))]
        ELSE [westbound |-> clean_empty_lines(SubSeq(lines, 1, mid_point)),
              eastbound |->
                  clean_empty_lines(SubSeq(lines, mid_point + 1, Len(lines)))]

\* "Reverse each line in eastbound data"
ReverseLine(line) ==
    IF Strip(line) # <<>> THEN Join(Reversed(Split(line, ",")), ",") ELSE line

ReverseEastbound(eastbound_text) ==
    LET eastbound_lines ==
            IF eastbound_text # <<>> THEN Split(eastbound_text, "\n") ELSE <<>>
    IN  Join([k \in 1..Len(eastbound_lines) |-> ReverseLine(eastbound_lines[k])],
             "\n")

\* A regular schedule that cannot be read.
Unreadable == <<"(unreadable)">>

TrueFlag == <<",", "t", "r", "u", "e">>

FalseFlag == <<",", "f", "a", "l", "s", "e">>

IsDifferentMutant(line, regular_lines_set) == Strip(line) \in regular_lines_set

\* "Check if this line exists in regular schedule"
IsDifferent(line, regular_lines_set) == Strip(line) \notin regular_lines_set

\* A variant that takes a regular schedule it cannot read for an empty one.
AddDifferenceFlagsMutant(special_schedule_text, regular_schedule_text) ==
    IF Strip(special_schedule_text) = <<>> THEN special_schedule_text
    ELSE
        LET special_lines == Split(special_schedule_text, "\n")
            regular_lines ==
                IF regular_schedule_text = Unreadable THEN <<>>
                ELSE Split(regular_schedule_text, "\n")
            regular_lines_set ==
                {Strip(regular_lines[k]) : k \in 1..Len(regular_lines)}
                    \ {<<>>}
        IN  Join([k \in 1..Len(special_lines) |->
                     IF Strip(special_lines[k]) # <<>>
                     THEN special_lines[k] \o
                              (IF IsDifferent(special_lines[k], regular_lines_set)
                               THEN TrueFlag ELSE FalseFlag)
                     ELSE special_lines[k]], "\n")

\* _add_difference_flags, the regular schedule of the direction being
\* regular_schedule_text, or Unreadable when getting it raises.
_add_difference_flags(special_schedule_text, regular_schedule_text) ==
    IF Strip(special_schedule_text) = <<>> THEN special_schedule_text
    ELSE IF regular_schedule_text = Unreadable THEN special_schedule_text
    ELSE
        LET special_lines == Split(special_schedule_text, "\n")
            regular_lines == Split(regular_schedule_text, "\n")
            regular_lines_set ==
                {Strip(regular_lines[k]) : k \in 1..Len(regular_lines)}
                    \ {<<>>}
        IN  Join([k \in 1..Len(special_lines) |->
                     IF Strip(special_lines[k]) # <<>>
                     THEN special_lines[k] \o
                              (IF IsDifferent(special_lines[k], regular_lines_set)
                               THEN TrueFlag ELSE FalseFlag)
                     ELSE special_lines[k]], "\n")

\* What lambda_handler computes from the extracted text before it reads
\* the regular schedules: the normalized text, its two halves, and the
\* eastbound half with each line reversed.
Prepared(text) ==
    LET normalized == _process_text(text)
        halves == _split_westbound_eastbound(normalized)
    IN  [normalized |-> normalized,
         split |-> halves,
         reversed_eastbound |-> ReverseEastbound(halves.eastbound)]

\* What it has computed when it starts writing: the two texts to write,
\* flagged against the regular schedules, besides.
Computed(prepared, regular) ==
    [normalized |-> prepared.normalized,
     split |-> prepared.split,
     reversed_eastbound |-> prepared.reversed_eastbound,
     westbound_text |->
         _add_difference_flags(prepared.split.westbound, regular.westbound),
     eastbound_text |->
         _add_difference_flags(prepared.reversed_eastbound, regular.eastbound)]

NotWritten == <<"(not written)">>

\* What can go wrong in a run: no PDF URL in the event, a failed download,
\* a failed write of the westbound or of the eastbound schedule.
Faults == {"none", "no_url", "download", "westbound_write", "eastbound_write"}

\* The schedule objects after lambda_handler's writes, of an event without
\* debug_mode: westbound first, then eastbound; a failed write raises and
\* ends the run.
Written(objects, computed, fault) ==
    IF fault \in {"no_url", "download", "westbound_write"} THEN objects
    ELSE IF fault = "eastbound_write"
    THEN [objects EXCEPT !.westbound = computed.westbound_text]
    ELSE [westbound |-> computed.westbound_text,
          eastbound |-> computed.eastbound_text]

-----------------------------------------------------------------------------
(* Time strings the checks are run on                                      *)

\* The decimal digits of n >= 0, without padding.
RECURSIVE Decimal(_)
Decimal(n) ==
    IF n < 10 THEN <<DigitChars[n + 1]>>
    ELSE Decimal(n \div 10) \o <<DigitChars[(n % 10) + 1]>>

TwoDigits(n) == <<DigitChars[(n \div 10) + 1], DigitChars[(n % 10) + 1]>>

\* H:MM followed by the meridiem letter, as the schedules print times.
FormatTime(h, m, mer) == Decimal(h) \o <<":">> \o TwoDigits(m) \o <<mer>>

\* The clock time `minutes` after midnight, as the schedules print it.
ClockTime(minutes) ==
    LET h24 == (minutes \div 60) % 24
        h12 == IF h24 % 12 = 0 THEN 12 ELSE h24 % 12
    IN  FormatTime(h12, minutes % 60, IF h24 < 12 THEN "A" ELSE "P")

\* The row of the specification's example: no service at station 3.
RowExample ==
    << FormatTime(6, 15, "A"), FormatTime(6, 22, "A"), FormatTime(6, 30, "A"),
       CLOSED, FormatTime(6, 45, "A") >>
    \o [i \in 1..9 |-> ClockTime(405 + 5 * i)]

\* 11:40P, 11:45P, CLOSED, 11:55P, 12:00A, 12:05A, ...
RowNight ==
    [i \in 1..14 |-> IF i = 3 THEN CLOSED ELSE ClockTime(1420 + 5 * (i - 1))]

\* 11:50A, 11:55A, 12:00P, 12:05P, ...
RowNoon == [i \in 1..14 |-> ClockTime(710 + 5 * (i - 1))]

\* A trailing partial row: 11:40P, 11:45P, CLOSED.
RowPartial == SubSeq(RowNight, 1, 3)

\* An eastbound row as persisted (reversed): times fall as the index grows.
RowEast == Reversed(RowNight)

\* Rows per CSV in the inputs.
MaxRows == 2

RECURSIVE SeqsUpTo(_, _)
SeqsUpTo(S, n) ==
    IF n = 0 THEN {<<>>}
    ELSE LET shorter == SeqsUpTo(S, n - 1)
         IN  shorter \cup {Append(q, x) : q \in {t \in shorter : Len(t) = n - 1}, x \in S}

\* The uploads: every westbound CSV of up to MaxRows rows that cross
\* midnight or noon, the specification's example row alone and followed by
\* a trailing partial row, and an eastbound CSV of two equal rows.
CsvInputs(direction) ==
    IF direction = "westbound"
    THEN (SeqsUpTo({RowNight, RowNoon}, MaxRows) \ {<<>>})
         \cup {<<RowExample>>, <<RowExample, RowPartial>>}
    ELSE {<<RowEast, RowEast>>}

\* The CSV document holding `rows`.
CsvText(rows) ==
    Join([r \in 1..Len(rows) |-> Join(rows[r], ",")], "\n")

\* Station indices the requests name: the ends of the line and the
\* stations at and beside the ones the rows mark CLOSED.
QueryIndices == {0, 1, 2, 3, 4, 13}

\* A parameter text with what it stands for: an integer, or not one.
ValidIndexParams ==
    {[text |-> Decimal(n), kind |-> "int", value |-> n] : n \in QueryIndices}

OddIndexParams ==
    { [text |-> <<"1", "4">>, kind |-> "int", value |-> 14],
      [text |-> <<"-", "1">>, kind |-> "int", value |-> -1],
      [text |-> <<"x">>, kind |-> "not_int", value |-> 0],
      [text |-> <<>>, kind |-> "not_int", value |-> 0],
      [text |-> Absent, kind |-> "absent", value |-> 0] }

DirectionParams ==
    { [text |-> WestboundChars, kind |-> "westbound"],
      [text |-> EastboundChars, kind |-> "eastbound"],
      [text |-> <<"W", "e", "s", "t", "b", "o", "u", "n", "d">>, kind |-> "westbound"],
      [text |-> <<"n", "o", "r", "t", "h">>, kind |-> "other"],
      [text |-> Absent, kind |-> "absent"] }

IndexParam(n) == [text |-> Decimal(n), kind |-> "int", value |-> n]

\* The requests: every pair of station indices in both directions, and the
\* odd parameters each in turn beside good and odd ones.
Requests ==
    LET named == {p \in DirectionParams : p.text \in {WestboundChars, EastboundChars}}
        west == {p \in DirectionParams : p.text = WestboundChars}
        other == {p \in DirectionParams : p.kind = "other"}
        few == {IndexParam(0), IndexParam(4)}
    IN  (ValidIndexParams \X ValidIndexParams \X named)
        \cup (OddIndexParams \X (few \cup OddIndexParams) \X (west \cup other))
        \cup (few \X OddIndexParams \X (west \cup other))
        \cup (few \X few \X DirectionParams)

NoRequest ==
    [ params |-> [source_station_index |-> Absent,
                  destination_station_index |-> Absent,
                  direction |-> Absent],
      source |-> [kind |-> "none", value |-> 0],
      destination |-> [kind |-> "none", value |-> 0],
      direction |-> "none" ]

NoResponse == [statusCode |-> 0, body |-> [none |-> TRUE]]

\* Fields on one line of extracted text: none, one, or within three of
\* MaxFields.
MaxFields == 16

FieldCounts == 0..1 \cup (MaxFields - 3)..MaxFields

\* Lines per extracted text.
MaxLines == 2

\* Runs of _process_text, each after the first on the result of the one before.
MaxRuns == 2

\* A line of extracted text that is no schedule row.
HeaderLine == <<"P", "a", "g", "e", " ", "1">>

\* The k-th line of an extracted text, with n times five minutes apart,
\* separated by spaces.  Kind "glyph" has the closed-station glyph as its
\* third field; kind "bare" has no meridiem letter on its second field;
\* kind "comma" is as "bare" but separated by commas; kind "crlf" ends
\* with a carriage return.
RawLine(k, n, kind) ==
    LET time(i) == ClockTime(690 + 95 * (k - 1) + 5 * (i - 1))
        fields == [i \in 1..n |->
                      IF kind = "glyph" /\ i = 3 THEN <<ClosedGlyph>>
                      ELSE IF kind \in {"bare", "comma"} /\ i = 2
                      THEN SubSeq(time(i), 1, Len(time(i)) - 1)
                      ELSE time(i)]
    IN  IF kind = "header" THEN HeaderLine
        ELSE IF kind = "comma" THEN Join(fields, ",")
        ELSE IF kind = "crlf" THEN Join(fields, " ") \o <<"\r">>
        ELSE Join(fields, " ")

LineKinds ==
    {[n |-> n, kind |-> "times"] : n \in FieldCounts}
        \cup {[n |-> n, kind |-> kind] :
                 n \in MaxFields - 1..MaxFields, kind \in {"glyph", "comma"}}
        \cup {[n |-> MaxFields, kind |-> "bare"], [n |-> 1, kind |-> "crlf"],
              [n |-> 0, kind |-> "header"]}

\* The extracted texts: every sequence of 1..MaxLines lines.
RawTexts ==
    {Join([k \in 1..Len(kinds) |-> RawLine(k, kinds[k].n, kinds[k].kind)], "\n") :
        kinds \in SeqsUpTo(LineKinds, MaxLines) \ {<<>>}}

\* Schedule rows per extracted PDF text, the trailing partial row apart.
MaxTrips == 2

\* Fields of the trailing partial row of a PDF text that has one.
TailFields == 3

\* A line of extracted text giving the date of the schedule.
DateLine == <<"7", "/", "1", "5">>

\* The fields of a schedule row as the PDF prints it, five minutes apart:
\* "evening" from 9:00P, "early" from 12:05A, "morning" from 11:30A to
\* 12:35P with the closed-station glyph in place of its first and last
\* time, "bare" as "evening" but with no meridiem letter on the second.
PdfRow(kind) ==
    LET start == IF kind = "early" THEN 5
                 ELSE IF kind = "morning" THEN 690 ELSE 1260
    IN  [i \in 1..NormalizedColumns |->
            IF kind = "morning" /\ i \in {1, NormalizedColumns}
            THEN <<ClosedGlyph>>
            ELSE IF kind = "bare" /\ i = 2
            THEN SubSeq(ClockTime(start + 5), 1, Len(ClockTime(start + 5)) - 1)
            ELSE ClockTime(start + 5 * (i - 1))]

RowKinds == {"evening", "early", "morning", "bare"}

\* The text of a PDF: a line that is no schedule row (or none), the rows
\* with their fields separated by spaces, and a partial row of `tail` fields.
PdfText(noise, kinds, tail) ==
    LET first == IF noise = "header" THEN <<HeaderLine>>
                 ELSE IF noise = "date" THEN <<DateLine>> ELSE <<>>
        rows == [k \in 1..Len(kinds) |-> Join(PdfRow(kinds[k]), " ")]
        last == IF tail = 0 THEN <<>>
                ELSE <<Join(SubSeq(PdfRow("early"), 1, tail), " ")>>
    IN  Join(first \o rows \o last, "\n")

PdfTexts ==
    {PdfText(noise, kinds, tail) :
        noise \in {"none", "header", "date"},
        kinds \in SeqsUpTo(RowKinds, MaxTrips),
        tail \in {0, TailFields}}

\* A schedule row as the regular schedules hold it.
CsvLine(fields) ==
    Join([i \in 1..Len(fields) |->
             IF fields[i] = <<ClosedGlyph>> THEN CLOSED ELSE fields[i]], ",")

\* The regular schedules a run may find: per direction a schedule with
\* rows of the palette (lines ending in a carriage return), or none that
\* can be read.
RegularSchedules ==
    [westbound : {Unreadable,
                  CsvLine(PdfRow("evening")) \o <<"\r", "\n">>
                      \o CsvLine(PdfRow("morning")) \o <<"\r", "\n">>},
     eastbound : {Unreadable,
                  CsvLine(Reversed(PdfRow("early"))) \o <<"\r", "\n">>}]

NoEvent == [fault |-> "none",
            regular |-> [westbound |-> Unreadable, eastbound |-> Unreadable]]

NoLocals == [normalized |-> <<>>,
             split |-> [westbound |-> <<>>, eastbound |-> <<>>],
             reversed_eastbound |-> <<>>,
             westbound_text |-> <<>>, eastbound_text |-> <<>>]

NothingStored == [westbound |-> NotWritten, eastbound |-> NotWritten]

NoFields == [hour |-> 0, minute |-> 0, meridiem |-> "-"]

NotComputed == 0 - 1

\* Strings that are no time: CLOSED, empty, no meridiem letter, no number.
UnparseableTimes ==
    { CLOSED,
      <<>>,
      <<"6", ":", "3", "0">>,
      <<"A">>,
      <<":", "A">>,
      <<"6", ":", "x", "0", "P">>,
      <<"6", ":", "3", "0", ":", "1", "0", "A">>,
      <<"n", "o", "o", "n">> }

-----------------------------------------------------------------------------
(* The time conversion on its own                                          *)

ConvIdle ==
    /\ time_str = <<>>
    /\ time_fields = NoFields
    /\ sortable = NotComputed

QueryIdle ==
    /\ tables = [d \in Directions |-> EmptyTable]
    /\ loaded = [d \in Directions |-> <<>>]
    /\ request = NoRequest
    /\ response = NoResponse
    /\ scanned = FALSE

NormIdle ==
    /\ raw_text = <<>>
    /\ columns_text = <<>>
    /\ csv_text = <<>>
    /\ runs = 0

PipeIdle ==
    /\ pdf_text = <<>>
    /\ event = NoEvent
    /\ locals = NoLocals
    /\ stored = NothingStored
    /\ outcome = "idle"

\* No suffix inferred yet, no line fixed yet.
NoSuffix == "-"

NotFixed == <<"(not fixed)">>

InferIdle ==
    /\ row_columns = <<>>
    /\ bare_index = 0
    /\ am_pm_suffix = NoSuffix
    /\ fixed_columns = NotFixed

\* The schedule dates whose CSVs are uploaded.
Dates == {"2025-07-15", "2025-07-16"}

NoIngest == [date |-> "none", direction |-> "none", rows |-> <<>>]

NothingProcessed == [date \in Dates |-> [d \in Directions |-> EmptyTable]]

StoreIdle ==
    /\ ingest = NoIngest
    /\ handed = <<>>
    /\ store_status = 0
    /\ processed = NothingProcessed

\* The programs that write special-schedule objects to the bucket: the
\* GetScheduleInformation Lambda, the Rock Pi scripts
\* process_special_schedule.py and get_schedule_information.py, which save
\* the PDF, and the converter, which uploads the two CSVs.
PdfProducers ==
    {"GetScheduleInformation", "process_special_schedule",
     "get_schedule_information"}

Producers == PdfProducers \cup {"ConvertPdfToTxt"}

\* The download endpoints.
Readers == {"GetSchedules", "GetScheduleFiles"}

NotRunning == [date |-> "none", step |-> "idle"]

NotAsked ==
    [date |-> "none", step |-> "idle", files_exist |-> <<>>, statusCode |-> 0,
     links |-> {}]

NoObjects == {}

FilesIdle ==
    /\ pdf_puts = [date \in Dates |-> 0]
    /\ csv_objects = NoObjects
    /\ producers = [p \in Producers |-> NotRunning]
    /\ readers = [r \in Readers |-> NotAsked]

ClosedIdle ==
    /\ closed_text = <<>>
    /\ closed_fixed = NotFixed

NotConverted == [none |-> TRUE]

PortIdle ==
    /\ extracted_text = <<>>
    /\ converted = NotConverted

InitConv ==
    /\ \/ \E h \in 1..12, m \in 0..59, mer \in {"A", "P"} :
            /\ time_fields = [hour |-> h, minute |-> m, meridiem |-> mer]
            /\ time_str = FormatTime(h, m, mer)
       \/ /\ time_fields = NoFields
          /\ time_str \in UnparseableTimes
    /\ sortable = NotComputed
    /\ QueryIdle
    /\ NormIdle
    /\ PipeIdle
    /\ InferIdle
    /\ StoreIdle
    /\ PortIdle
    /\ ClosedIdle
    /\ FilesIdle

Convert ==
    /\ sortable = NotComputed
    /\ sortable' = convert_time_to_sortable(time_str)
    /\ UNCHANGED <<time_str, time_fields>>
    /\ UNCHANGED queryVars
    /\ UNCHANGED normVars
    /\ UNCHANGED pipeVars
    /\ UNCHANGED inferVars
    /\ UNCHANGED <<storeVars, fileVars, closedVars, portVars>>

NextConv == Convert

SpecConv == InitConv /\ [][NextConv]_vars

-----------------------------------------------------------------------------
(* The trip store and the query API                                        *)

Init ==
    /\ ConvIdle
    /\ QueryIdle
    /\ NormIdle
    /\ PipeIdle
    /\ InferIdle
    /\ StoreIdle
    /\ PortIdle
    /\ ClosedIdle
    /\ FilesIdle

\* StoreDataInDynamoDB's lambda_handler on one uploaded CSV of a direction.
StoreSchedule(direction, rows) ==
    /\ response = NoResponse
    /\ tables' = [tables EXCEPT ![direction] =
                     process_csv_to_dynamodb(@, CsvText(rows),
                                             StationsOf(direction), direction)]
    /\ loaded' = [loaded EXCEPT ![direction] =
                     IF ProcessRaises(rows, StationsOf(direction))
                     THEN <<>> ELSE rows]
    /\ UNCHANGED <<request, response, scanned>>
    /\ UNCHANGED convVars
    /\ UNCHANGED normVars
    /\ UNCHANGED pipeVars
    /\ UNCHANGED inferVars
    /\ UNCHANGED <<storeVars, fileVars, closedVars, portVars>>

\* QueryScheduleAPI's lambda_handler on one request.
Query(source, destination, direction, order) ==
    LET params == [ source_station_index |-> source.text,
                    destination_station_index |-> destination.text,
                    direction |-> direction.text ]
        result == lambda_handler(params, tables, order)
    IN  /\ response = NoResponse
        /\ request' = [ params |-> params,
                        source |-> [kind |-> source.kind, value |-> source.value],
                        destination |-> [kind |-> destination.kind,
                                         value |-> destination.value],
                        direction |-> direction.kind ]
        /\ response' = result.response
        /\ scanned' = result.scanned
        /\ UNCHANGED <<tables, loaded>>
        /\ UNCHANGED convVars
        /\ UNCHANGED normVars
        /\ UNCHANGED pipeVars
        /\ UNCHANGED inferVars
        /\ UNCHANGED <<storeVars, fileVars, closedVars, portVars>>

\* The response is delivered to the caller; the next event can be handled.
Reply ==
    /\ response # NoResponse
    /\ request' = NoRequest
    /\ response' = NoResponse
    /\ scanned' = FALSE
    /\ UNCHANGED <<tables, loaded>>
    /\ UNCHANGED convVars
    /\ UNCHANGED normVars
    /\ UNCHANGED pipeVars
    /\ UNCHANGED inferVars
    /\ UNCHANGED <<storeVars, fileVars, closedVars, portVars>>

\* An upload event: the stored table of one direction is rebuilt.
Upload ==
    /\ response = NoResponse
    /\ \E direction \in Directions :
         \E rows \in CsvInputs(direction) : StoreSchedule(direction, rows)

\* An API request, the scan delivering the trips in any order.
Ask ==
    /\ response = NoResponse
    /\ \E req \in Requests :
         \E order \in Orders(TripIdsOf(tables[
                         ScannedTable([direction |-> req[3].text])])) :
            Query(req[1], req[2], req[3], order)

Next ==
    \/ Upload
    \/ Ask
    \/ Reply

Spec == Init /\ [][Next]_vars

-----------------------------------------------------------------------------
(* The text normalizer on its own                                          *)

InitNorm ==
    /\ raw_text \in RawTexts
    /\ columns_text = <<>>
    /\ csv_text = <<>>
    /\ runs = 0
    /\ ConvIdle
    /\ QueryIdle
    /\ PipeIdle
    /\ InferIdle
    /\ StoreIdle
    /\ PortIdle
    /\ ClosedIdle
    /\ FilesIdle

\* _process_text on the extracted text.
ProcessText ==
    /\ runs = 0
    /\ columns_text' = CleanText(raw_text)
    /\ csv_text' = _process_text(raw_text)
    /\ runs' = 1
    /\ UNCHANGED raw_text
    /\ UNCHANGED <<convVars, queryVars, pipeVars, inferVars, storeVars,
                   fileVars, closedVars, portVars>>

\* _process_text on the text the run before returned.
ProcessAgain ==
    /\ runs >= 1
    /\ runs < MaxRuns
    /\ raw_text' = csv_text
    /\ columns_text' = CleanText(csv_text)
    /\ csv_text' = _process_text(csv_text)
    /\ runs' = runs + 1
    /\ UNCHANGED <<convVars, queryVars, pipeVars, inferVars, storeVars,
                   fileVars, closedVars, portVars>>

NextNorm ==
    \/ ProcessText
    \/ ProcessAgain

SpecNorm == InitNorm /\ [][NextNorm]_vars

-----------------------------------------------------------------------------
(* The conversion pipeline: one run of ConvertPdfToTxt's lambda_handler    *)

InitPipe ==
    /\ pdf_text \in PdfTexts
    /\ event = NoEvent
    /\ locals = NoLocals
    /\ stored = NothingStored
    /\ outcome = "idle"
    /\ ConvIdle
    /\ QueryIdle
    /\ NormIdle
    /\ InferIdle
    /\ StoreIdle
    /\ PortIdle
    /\ ClosedIdle
    /\ FilesIdle

\* lambda_handler on the event of a PDF whose text is pdf_text: the event
\* may lack the URL, the download may fail, each regular schedule may be
\* unreadable, and either write may fail.
ConvertPdf ==
    /\ outcome = "idle"
    /\ LET prepared == Prepared(pdf_text)
       IN  \E fault \in Faults, regular \in RegularSchedules :
              LET computed == Computed(prepared, regular)
              IN  /\ event' = [fault |-> fault, regular |-> regular]
                  /\ locals' = IF fault \in {"no_url", "download"}
                               THEN NoLocals ELSE computed
                  /\ stored' = Written(stored, computed, fault)
                  /\ outcome' = IF fault = "none" THEN "returned" ELSE "raised"
    /\ UNCHANGED pdf_text
    /\ UNCHANGED <<convVars, queryVars, normVars, inferVars, storeVars,
                   fileVars, closedVars, portVars>>

NextPipe == ConvertPdf

SpecPipe == InitPipe /\ [][NextPipe]_vars

-----------------------------------------------------------------------------
(* The meridiem inference on its own                                       *)

\* Columns per line given to the inference.
MaxColumns == 3

\* A time as ClockTime prints it, without its meridiem letter.
Bare(time) == SubSeq(time, 1, Len(time) - 1)

\* The columns a line is made of: the bare times 7:05, 1:05 and 12:05, the
\* times 6:58A, 7:30P, 12:50A, 12:50P and 10:00P, and CLOSED.
ColumnPalette ==
    { Bare(ClockTime(425)), Bare(ClockTime(65)), Bare(ClockTime(725)),
      ClockTime(418), ClockTime(1170), ClockTime(50), ClockTime(770),
      ClockTime(1320), CLOSED }

\* The indices of the columns of a line that _fix_missing_am_pm infers.
BareIndices(columns) == {i \in 1..Len(columns) : IsBareTime(Strip(columns[i]))}

InitInfer ==
    /\ row_columns \in SeqsUpTo(ColumnPalette, MaxColumns)
    /\ bare_index \in BareIndices(row_columns)
    /\ am_pm_suffix = NoSuffix
    /\ fixed_columns = NotFixed
    /\ ConvIdle
    /\ QueryIdle
    /\ NormIdle
    /\ PipeIdle
    /\ StoreIdle
    /\ PortIdle
    /\ ClosedIdle
    /\ FilesIdle

\* _infer_am_pm_suffix(columns, current_index) on the line as it was read.
InferSuffix ==
    /\ am_pm_suffix = NoSuffix
    /\ am_pm_suffix' = _infer_am_pm_suffix(row_columns, bare_index)
    /\ UNCHANGED <<row_columns, bare_index, fixed_columns>>
    /\ UNCHANGED <<convVars, queryVars, normVars, pipeVars, storeVars,
                   fileVars, closedVars, portVars>>

\* _fix_missing_am_pm on the text of the one line.
FixLine ==
    /\ fixed_columns = NotFixed
    /\ fixed_columns' = Split(_fix_missing_am_pm(Join(row_columns, ",")), ",")
    /\ UNCHANGED <<row_columns, bare_index, am_pm_suffix>>
    /\ UNCHANGED <<convVars, queryVars, normVars, pipeVars, storeVars,
                   fileVars, closedVars, portVars>>

NextInfer ==
    \/ InferSuffix
    \/ FixLine

SpecInfer == InitInfer /\ [][NextInfer]_vars

-----------------------------------------------------------------------------
(* The trip store on its own: StoreDataInDynamoDB on the CSVs of two dates *)

\* A row as the conversion persists it when a baseline is readable.
Flagged(row, flag) == Append(row, Tail(flag))

\* The noon row with the merged field the conversion can persist.
RowMerged == [RowNoon EXCEPT ![2] = Bare(RowNoon[2]) \o RowNoon[3]]

\* The CSVs uploaded: two, three and four full rows, one of them with a
\* field that is no time, flagged rows, and an eastbound row.
StoreInputs(direction) ==
    IF direction = "westbound"
    THEN { <<RowNoon, RowNight>>,
           <<RowNight, RowNoon, RowNoon, RowNight>>,
           <<Flagged(RowNoon, FalseFlag), Flagged(RowNight, TrueFlag)>>,
           <<RowNoon, RowMerged, RowNight>> }
    ELSE { <<RowEast>> }

InitStore ==
    /\ StoreIdle
    /\ PortIdle
    /\ ClosedIdle
    /\ FilesIdle
    /\ ConvIdle
    /\ QueryIdle
    /\ NormIdle
    /\ PipeIdle
    /\ InferIdle

\* lambda_handler of StoreDataInDynamoDB on the event of one object, the CSV
\* `rows` of a direction stored under a key of the schedule date `date`.
Ingest(date, direction, rows) ==
    LET stations == StationsOf(direction)
        raised == ProcessRaises(rows, stations)
        items == AppendedFrom(CsvRows(CsvText(rows)), 1, stations, direction)
    IN  /\ ingest' = [date |-> date, direction |-> direction, rows |-> rows]
        /\ handed' = Batches(items, raised)
        /\ tables' = [tables EXCEPT ![direction] =
                         process_csv_to_dynamodb(@, CsvText(rows), stations,
                                                 direction)]
        /\ loaded' = [loaded EXCEPT ![direction] = IF raised THEN <<>> ELSE rows]
        /\ store_status' = IF raised THEN 500 ELSE 200
        /\ processed' = [processed EXCEPT ![date][direction] =
                            process_csv_to_dynamodb(@, CsvText(rows), stations,
                                                    direction)]
        /\ UNCHANGED <<request, response, scanned>>
        /\ UNCHANGED <<convVars, normVars, pipeVars, inferVars, fileVars, closedVars, portVars>>

StoreEvent ==
    \E date \in Dates, direction \in Directions :
        \E rows \in StoreInputs(direction) : Ingest(date, direction, rows)

NextStore == StoreEvent

SpecStore == InitStore /\ [][NextStore]_vars

-----------------------------------------------------------------------------
(* The special-schedule PDF of a date, and the programs that save it      *)

\* How many put_object calls on one key the model follows.
MaxPuts == 2

\* Whether schedules/special/{date}/special_schedule.pdf is in the bucket.
PdfExists(date) == pdf_puts[date] > 0

\* Whether producer p, at its current step, is about to download the PDF and
\* put it: the two that check have seen the key missing, and
\* get_schedule_information.py does not check.
AboutToPut(p) ==
    \/ producers[p].step = "missing"
    \/ p = "get_schedule_information" /\ producers[p].step = "started"

InitPdf ==
    /\ FilesIdle
    /\ StoreIdle
    /\ PortIdle
    /\ ClosedIdle
    /\ ConvIdle
    /\ QueryIdle
    /\ NormIdle
    /\ PipeIdle
    /\ InferIdle

\* A run of producer p finds a special schedule for `date` and calls its
\* function that saves the PDF.
Invoke(p, date) ==
    /\ producers[p].step = "idle"
    /\ producers' = [producers EXCEPT ![p] = [date |-> date, step |-> "started"]]
    /\ UNCHANGED <<pdf_puts, csv_objects, readers>>
    /\ UNCHANGED <<convVars, queryVars, normVars, pipeVars, inferVars, storeVars,
                   closedVars, portVars>>

\* The existence check of the two producers that make one: the key is there
\* and the function returns without writing, or head_object raises 404 and
\* the function goes on to download and upload.
head_object(p) ==
    /\ p \in {"GetScheduleInformation", "process_special_schedule"}
    /\ producers[p].step = "started"
    /\ producers' = [producers EXCEPT ![p] =
                        IF PdfExists(@.date) THEN NotRunning
                        ELSE [@ EXCEPT !.step = "missing"]]
    /\ UNCHANGED <<pdf_puts, csv_objects, readers>>
    /\ UNCHANGED <<convVars, queryVars, normVars, pipeVars, inferVars, storeVars,
                   closedVars, portVars>>

\* head_object raises an error other than 404: the function logs it and
\* returns False without writing.
AccessError(p) ==
    /\ p \in {"GetScheduleInformation", "process_special_schedule"}
    /\ producers[p].step = "started"
    /\ producers' = [producers EXCEPT ![p] = NotRunning]
    /\ UNCHANGED <<pdf_puts, csv_objects, readers>>
    /\ UNCHANGED <<convVars, queryVars, normVars, pipeVars, inferVars, storeVars,
                   closedVars, portVars>>

\* The download succeeds and the producer puts the PDF under the date's key.
put_object(p) ==
    /\ AboutToPut(p)
    /\ pdf_puts[producers[p].date] < MaxPuts
    /\ pdf_puts' = [pdf_puts EXCEPT ![producers[p].date] = @ + 1]
    /\ producers' = [producers EXCEPT ![p] = NotRunning]
    /\ UNCHANGED <<csv_objects, readers>>
    /\ UNCHANGED <<convVars, queryVars, normVars, pipeVars, inferVars, storeVars,
                   closedVars, portVars>>

\* The download raises and the function returns False without writing.
DownloadFails(p) ==
    /\ AboutToPut(p)
    /\ producers' = [producers EXCEPT ![p] = NotRunning]
    /\ UNCHANGED <<pdf_puts, csv_objects, readers>>
    /\ UNCHANGED <<convVars, queryVars, normVars, pipeVars, inferVars, storeVars,
                   closedVars, portVars>>

InvokeStep == \E p \in PdfProducers, date \in Dates : Invoke(p, date)

HeadStep == \E p \in PdfProducers : head_object(p)

PutStep == \E p \in PdfProducers : put_object(p)

FailStep == \E p \in PdfProducers : AccessError(p) \/ DownloadFails(p)

NextPdf == InvokeStep \/ HeadStep \/ PutStep \/ FailStep

SpecPdf == InitPdf /\ [][NextPdf]_vars

-----------------------------------------------------------------------------
(* The special-schedule CSVs of a date, the converter that uploads them    *)
(* and the download endpoints that hand out links to them                  *)

\* GetScheduleFiles checks the two files in this order, and GetSchedules
\* checks eastbound_key before westbound_key.
SPECIAL_SCHEDULE_FILES == <<"eastbound", "westbound">>

\* all(files_exist)
AllExistMutant(files_exist) == \E i \in 1..Len(files_exist) : files_exist[i]

AllExist(files_exist) == \A i \in 1..Len(files_exist) : files_exist[i]

\* The url keys of the special schedule an endpoint puts in its answer.
SpecialLinks(r, date, files_exist) ==
    IF ~AllExist(files_exist) THEN {}
    ELSE {"eastbound_url", "westbound_url"}
         \cup (IF r = "GetScheduleFiles" /\ PdfExists(date)
               THEN {"pdf_url"} ELSE {})

\* GetSchedules answers 404 when a file is missing; GetScheduleFiles leaves
\* special_schedules out of a 200 answer.
AnswerStatus(r, files_exist) ==
    IF r = "GetSchedules" /\ ~AllExist(files_exist) THEN 404 ELSE 200

InitLinks ==
    /\ pdf_puts \in [Dates -> {0, 1}]
    /\ csv_objects = NoObjects
    /\ producers = [p \in Producers |-> NotRunning]
    /\ readers = [r \in Readers |-> NotAsked]
    /\ StoreIdle
    /\ PortIdle
    /\ ClosedIdle
    /\ ConvIdle
    /\ QueryIdle
    /\ NormIdle
    /\ PipeIdle
    /\ InferIdle

\* The converter's run for `date` puts the westbound CSV.
UploadWestbound(date) ==
    /\ producers["ConvertPdfToTxt"].step = "idle"
    /\ csv_objects' = csv_objects \cup {<<date, "westbound">>}
    /\ producers' = [producers EXCEPT !["ConvertPdfToTxt"] =
                        [date |-> date, step |-> "westbound_uploaded"]]
    /\ UNCHANGED <<pdf_puts, readers>>
    /\ UNCHANGED <<convVars, queryVars, normVars, pipeVars, inferVars, storeVars,
                   closedVars, portVars>>

\* Then it puts the eastbound CSV and returns.
UploadEastbound ==
    /\ producers["ConvertPdfToTxt"].step = "westbound_uploaded"
    /\ csv_objects' =
           csv_objects \cup {<<producers["ConvertPdfToTxt"].date, "eastbound">>}
    /\ producers' = [producers EXCEPT !["ConvertPdfToTxt"] = NotRunning]
    /\ UNCHANGED <<pdf_puts, readers>>
    /\ UNCHANGED <<convVars, queryVars, normVars, pipeVars, inferVars, storeVars,
                   closedVars, portVars>>

\* Or the second put_object raises and the run ends with one CSV uploaded.
UploadFails ==
    /\ producers["ConvertPdfToTxt"].step = "westbound_uploaded"
    /\ producers' = [producers EXCEPT !["ConvertPdfToTxt"] = NotRunning]
    /\ UNCHANGED <<pdf_puts, csv_objects, readers>>
    /\ UNCHANGED <<convVars, queryVars, normVars, pipeVars, inferVars, storeVars,
                   closedVars, portVars>>

\* Endpoint r receives a request for schedule_date = date.
Request(r, date) ==
    /\ readers[r].step \in {"idle", "answered"}
    /\ readers' = [readers EXCEPT ![r] =
                      [NotAsked EXCEPT !.date = date, !.step = "checking"]]
    /\ UNCHANGED <<pdf_puts, csv_objects, producers>>
    /\ UNCHANGED <<convVars, queryVars, normVars, pipeVars, inferVars, storeVars,
                   closedVars, portVars>>

\* Its next existence check: True when head_object finds the object, False
\* when head_object raises, whatever the exception.
check_file_exists(r) ==
    LET asked == readers[r]
        filename == SPECIAL_SCHEDULE_FILES[Len(asked.files_exist) + 1]
    IN  /\ asked.step = "checking"
        /\ Len(asked.files_exist) < Len(SPECIAL_SCHEDULE_FILES)
        /\ \E exists \in {FALSE, (<<asked.date, filename>> \in csv_objects)} :
               readers' = [readers EXCEPT ![r].files_exist = Append(@, exists)]
        /\ UNCHANGED <<pdf_puts, csv_objects, producers>>
        /\ UNCHANGED <<convVars, queryVars, normVars, pipeVars, inferVars,
                       storeVars, closedVars, portVars>>

\* With both checks made, the endpoint builds its answer.
Respond(r) ==
    LET asked == readers[r]
    IN  /\ asked.step = "checking"
        /\ Len(asked.files_exist) = Len(SPECIAL_SCHEDULE_FILES)
        /\ readers' = [readers EXCEPT ![r] =
               [@ EXCEPT !.step = "answered",
                         !.statusCode = AnswerStatus(r, asked.files_exist),
                         !.links = SpecialLinks(r, asked.date,
                                                asked.files_exist)]]
        /\ UNCHANGED <<pdf_puts, csv_objects, producers>>
        /\ UNCHANGED <<convVars, queryVars, normVars, pipeVars, inferVars,
                       storeVars, closedVars, portVars>>

UploadStep == (\E date \in Dates : UploadWestbound(date)) \/ UploadEastbound \/ UploadFails

RequestStep == \E r \in Readers, date \in Dates : Request(r, date)

CheckStep == \E r \in Readers : check_file_exists(r)

RespondStep == \E r \in Readers : Respond(r)

NextLinks == UploadStep \/ RequestStep \/ CheckStep \/ RespondStep

SpecLinks == InitLinks /\ [][NextLinks]_vars

-----------------------------------------------------------------------------
(* _fix_closed_formatting on its own                                       *)

\* How many pieces the texts given to it are made of.
MaxTokens == 4

\* The pieces: the word CLOSED, a time with its separator, a separator, a
\* blank and a line break.
ClosedTokens ==
    {CLOSED, <<"6", ":", "1", "5", "A", ",">>, <<",">>, <<" ">>, <<"\n">>}

ClosedTexts ==
    UNION {{Concat(pieces) : pieces \in [1..n -> ClosedTokens]} : n \in 1..MaxTokens}

InitClosed ==
    /\ closed_text \in ClosedTexts
    /\ closed_fixed = NotFixed
    /\ FilesIdle
    /\ StoreIdle
    /\ PortIdle
    /\ ConvIdle
    /\ QueryIdle
    /\ NormIdle
    /\ PipeIdle
    /\ InferIdle

FixClosed ==
    /\ closed_fixed = NotFixed
    /\ closed_fixed' = _fix_closed_formatting(closed_text)
    /\ UNCHANGED closed_text
    /\ UNCHANGED <<convVars, queryVars, normVars, pipeVars, inferVars, storeVars,
                   fileVars, portVars>>

NextClosed == FixClosed

SpecClosed == InitClosed /\ [][NextClosed]_vars

-----------------------------------------------------------------------------
(* The two converters on the same extracted text                           *)

InitPort ==
    /\ extracted_text \in RawTexts
    /\ converted = NotConverted
    /\ ClosedIdle
    /\ FilesIdle
    /\ StoreIdle
    /\ ConvIdle
    /\ QueryIdle
    /\ NormIdle
    /\ PipeIdle
    /\ InferIdle

\* The Lambda and the Rock Pi script each process the text and split the
\* result; each split is also applied to the text the other one processed.
ConvertBoth ==
    /\ converted = NotConverted
    /\ converted' =
           [lambda_csv |-> _process_text(extracted_text),
            rockpi_csv |-> process_text(extracted_text),
            lambda_tables |->
                _split_westbound_eastbound(_process_text(extracted_text)),
            rockpi_tables |->
                split_westbound_eastbound(process_text(extracted_text)),
            rockpi_split_of_lambda_csv |->
                split_westbound_eastbound(_process_text(extracted_text))]
    /\ UNCHANGED extracted_text
    /\ UNCHANGED <<convVars, queryVars, normVars, pipeVars, inferVars, storeVars,
                   fileVars, closedVars>>

NextPort == ConvertBoth

SpecPort == InitPort /\ [][NextPort]_vars

-----------------------------------------------------------------------------
(* What the last request asked for, read from the request as it was made   *)
(* (not from the handler's parse of it)                                    *)

Answered == response.statusCode = 200

AskedSource ==
    IF request.source.kind = "absent" THEN 0 ELSE request.source.value

AskedDestination ==
    IF request.destination.kind = "absent" THEN 1 ELSE request.destination.value

AskedDirection ==
    IF request.direction = "eastbound" THEN "eastbound" ELSE "westbound"

\* The index order matches the direction.
OrderMatches ==
    \/ AskedDirection = "westbound" /\ AskedSource < AskedDestination
    \/ AskedDirection = "eastbound" /\ AskedSource > AskedDestination

AnsweredTrips == response.body.trips

\* Minutes after midnight of a printed clock time, by the table of all
\* clock times.
ClockTable == [m \in 0..1439 |-> ClockTime(m)]

MinutesOf(time) == CHOOSE m \in 0..1439 : ClockTable[m] = time

\* The rows of the CSV last processed for the direction asked about.
AskedRows == loaded[AskedDirection]

\* Field k (from 0) of a row, when the row has one.
HasField(row, k) == k + 1 <= Len(row)

(* C1: for every table built from CSV rows and every valid query whose     *)
(* index order matches the direction, the result holds one entry for every *)
(* trip whose times at the source and at the destination index are both    *)
(* not CLOSED, whatever the other entries of the row are; so the westbound *)
(* row 6:15A,6:22A,6:30A,CLOSED,6:45A,... asked from 0 to 4 gives exactly  *)
(* one entry, 6:15A to 6:45A.                                              *)
C1_QueryCompleteness ==
    (Answered /\ OrderMatches) =>
        \A p \in 1..Len(AskedRows) :
            LET row == AskedRows[p]
            IN  ( /\ HasField(row, AskedSource)
                  /\ HasField(row, AskedDestination)
                  /\ row[AskedSource + 1] # CLOSED
                  /\ row[AskedDestination + 1] # CLOSED )
                => Cardinality({i \in 1..Len(AnsweredTrips) :
                        /\ AnsweredTrips[i].trip_id = TripId(AskedDirection, p)
                        /\ AnsweredTrips[i].departure_time = row[AskedSource + 1]
                        /\ AnsweredTrips[i].arrival_time = row[AskedDestination + 1]})
                   = 1

(* C2: no returned entry has a CLOSED departure or arrival, and a trip     *)
(* whose time at station index k is CLOSED is never returned for a query   *)
(* whose source or destination index is k.                                 *)
C2_QuerySoundness ==
    Answered =>
        \A i \in 1..Len(AnsweredTrips) :
            LET entry == AnsweredTrips[i]
                p == entry.trip_id[2]
            IN  /\ entry.departure_time # CLOSED
                /\ entry.arrival_time # CLOSED
                /\ p <= Len(AskedRows) =>
                     \A k \in {AskedSource, AskedDestination} :
                        HasField(AskedRows[p], k) => AskedRows[p][k + 1] # CLOSED

(* C3: a westbound query returns entries only when source < destination,   *)
(* an eastbound one only when source > destination; a query with in-range, *)
(* distinct indices whose order does not match the direction is answered   *)
(* successfully with an empty trip list and count 0.                       *)
WellFormedRequest ==
    /\ request.source.kind \in {"int", "absent"}
    /\ request.destination.kind \in {"int", "absent"}
    /\ request.direction \in {"westbound", "eastbound", "absent"}
    /\ AskedSource \in 0..13
    /\ AskedDestination \in 0..13
    /\ AskedSource # AskedDestination

BadDirection == request.direction = "other"

NotAnInteger ==
    request.source.kind = "not_int" \/ request.destination.kind = "not_int"

OutOfRange ==
    \/ request.source.kind = "int" /\ request.source.value \notin 0..13
    \/ request.destination.kind = "int" /\ request.destination.value \notin 0..13

SameStation ==
    /\ request.source.kind \in {"int", "absent"}
    /\ request.destination.kind \in {"int", "absent"}
    /\ AskedSource = AskedDestination

C4_QueryValidation ==
    (response # NoResponse /\ (BadDirection \/ NotAnInteger \/ OutOfRange \/ SameStation)) =>
        /\ response.statusCode = 400
        /\ DOMAIN response.body = {"error"}
        /\ ~scanned
        /\ \/ response.body.error = ErrDirection /\ BadDirection
           \/ response.body.error = ErrValue /\ NotAnInteger
           \/ response.body.error = ErrIndices /\ OutOfRange
           \/ response.body.error = ErrSame /\ SameStation

C4_Witness ==
    /\ response # NoResponse
    /\ request.source.kind = "int"
    /\ request.source.value = 14
    /\ request.destination.kind = "int"
    /\ request.destination.value = 4
    /\ request.direction = "westbound"
    /\ tables["westbound"] # EmptyTable
    /\ response.body.error = ErrIndices

(* C5: the returned list is in non-decreasing order of departure time      *)
(* taken as minutes since midnight, so 12:xxA entries come first and       *)
(* 11:xxP entries last.                                                    *)
C5_QueryOrdering ==
    Answered =>
        \A i \in 1..Len(AnsweredTrips) :
            \A j \in i + 1..Len(AnsweredTrips) :
                MinutesOf(AnsweredTrips[i].departure_time)
                    <= MinutesOf(AnsweredTrips[j].departure_time)

C5_Witness ==
    /\ Answered
    /\ Len(AnsweredTrips) = 2
    /\ AnsweredTrips[1].trip_id = TripId("westbound", 2)
    /\ AnsweredTrips[1].departure_time = FormatTime(12, 0, "A")
    /\ AnsweredTrips[2].trip_id = TripId("westbound", 1)
    /\ AnsweredTrips[2].departure_time = FormatTime(6, 45, "A")

(* C6: two returned trips with the same departure time appear in their     *)
(* original trip order, the order of their rows in the direction's table,  *)
(* whatever order the scan delivers the items in.                          *)
C6_TieBreaking ==
    Answered =>
        \A i \in 1..Len(AnsweredTrips) :
            \A j \in i + 1..Len(AnsweredTrips) :
                (MinutesOf(AnsweredTrips[i].departure_time)
                    = MinutesOf(AnsweredTrips[j].departure_time))
                => AnsweredTrips[i].trip_id[2] < AnsweredTrips[j].trip_id[2]

-----------------------------------------------------------------------------
(* C7: for every valid time (hour 1..12, minute 0..59, meridiem A or P)    *)
(* convert_time_to_sortable returns 60*h24 + minute, with h24 = 0 for 12 A,*)
(* 12 for 12 P, hour for other A and hour + 12 for other P; the result is  *)
(* in 0..1439 and below the sentinel, which is what CLOSED, empty and      *)
(* unparseable strings get.                                                *)
ExpectedHour24(h, mer) ==
    CASE h = 12 /\ mer = "A" -> 0
      [] h = 12 /\ mer = "P" -> 12
      [] h # 12 /\ mer = "A" -> h
      [] OTHER -> h + 12

C7_TimeConversion ==
    sortable # NotComputed =>
        IF time_fields # NoFields
        THEN /\ sortable = 60 * ExpectedHour24(time_fields.hour, time_fields.meridiem)
                           + time_fields.minute
             /\ sortable \in 0..1439
             /\ sortable < ClosedSortKey
        ELSE sortable = ClosedSortKey

C7_Witness ==
    /\ time_fields = [hour |-> 12, minute |-> 5, meridiem |-> "A"]
    /\ sortable = 5

-----------------------------------------------------------------------------
(* The rows of a normalized text and their fields                          *)

\* The rows of a text the normalizer returned; the empty text has none.
RowsOf(text) == IF text = <<>> THEN <<>> ELSE Split(text, "\n")

FieldsOf(row) == Split(row, ",")

RowWidths(text) ==
    LET rows == RowsOf(text)
    IN  [k \in 1..Len(rows) |-> Len(FieldsOf(rows[k]))]

\* The fields of all rows, in row order.
AllFields(text) ==
    LET rows == RowsOf(text)
    IN  Concat([k \in 1..Len(rows) |-> FieldsOf(rows[k])])

\* Rows of N fields, but for a last row that may have fewer.
FixedWidth(text) ==
    LET widths == RowWidths(text)
    IN  \A k \in 1..Len(widths) :
            \/ widths[k] = NormalizedColumns
            \/ k = Len(widths) /\ widths[k] < NormalizedColumns

(***************************************************************************)
(* C8: every row of the text the normalizer returns has exactly 14 fields, *)
(* except at most one row, which is the last and has fewer than 14.        *)
(***************************************************************************)
C8_FixedRowWidth == runs >= 1 => FixedWidth(csv_text)

\* The non-empty fields of the lines of a text, line after line.
NonEmptyFields(text) ==
    LET lines == Split(text, "\n")
        fields == Concat([k \in 1..Len(lines) |-> Split(Strip(lines[k]), ",")])
    IN  SelectSeq(fields, LAMBDA field : Len(field) > 0)

(***************************************************************************)
(* C9: the fields of the rows _normalize_to_14_columns returns, taken in   *)
(* row order, are the non-empty fields of its input lines in their order:  *)
(* none is dropped, repeated, moved or made up.                            *)
(***************************************************************************)
C9_LosslessColumns ==
    runs >= 1 => AllFields(csv_text) = NonEmptyFields(columns_text)

\* A line of the input is spread over two rows, and its empty fields are gone.
C9_Witness ==
    /\ runs >= 1
    /\ Len(RowsOf(csv_text)) >= 2
    /\ Len(Split(columns_text, "\n")) = 2
    /\ \E k \in 1..2 :
         LET line == Split(columns_text, "\n")[k]
         IN  /\ Len(NonEmptyFields(line)) < Len(Split(line, ","))
             /\ Len(NonEmptyFields(line)) > NormalizedColumns
    /\ C9_LosslessColumns

\* An hour 1..12, a minute 00..59 and a meridiem letter, or CLOSED.
IsQualified(field) ==
    \/ field = CLOSED
    \/ /\ IsSuffixedTime(field)
       /\ HourOf(field) \in 1..12
       /\ ParseInt(SubSeq(field, Len(field) - 2, Len(field) - 1)).val \in 0..59

AllQualified(text) ==
    \A i \in 1..Len(AllFields(text)) : IsQualified(AllFields(text)[i])

(***************************************************************************)
(* C10: _process_text returns unchanged every text that it can return and  *)
(* whose fields are all fully qualified times or CLOSED.                   *)
(***************************************************************************)
C10_Idempotence ==
    (runs >= 2 /\ AllQualified(raw_text)) => csv_text = raw_text

-----------------------------------------------------------------------------
(* A run of the pipeline that got as far as computing its texts            *)

Converted == outcome # "idle" /\ event.fault \notin {"no_url", "download"}

\* The characters of the allow-set: digits, the separators, the meridiem
\* letters and the glyphs; white space is no character of a line.
AllowedChars ==
    {DigitChars[i] : i \in 1..10}
        \cup {":", ",", "A", "P", ClosedGlyph, MarkerGlyph} \cup Whitespace

\* Position i of the line is inside an occurrence of the token CLOSED.
InClosedToken(line, i) == \E p \in i - 5..i : ClosedAt(line, p)

OutsideAllowSet(line) ==
    \E i \in 1..Len(line) :
        line[i] \notin AllowedChars /\ ~InClosedToken(line, i)

\* The non-blank lines handed to _filter_valid_lines that hold a character
\* outside the allow-set.
DisallowedLines ==
    LET lines == Split(PackedText(pdf_text), "\n")
    IN  {lines[k] : k \in {j \in 1..Len(lines) :
                              Strip(lines[j]) # <<>> /\ OutsideAllowSet(lines[j])}}

ElementsOf(seq) == {seq[i] : i \in 1..Len(seq)}

(***************************************************************************)
(* C11: every non-blank line with a character outside the allow-set        *)
(* (digits, ':', ',', A, P, the token CLOSED, the glyphs) is discarded by  *)
(* _filter_valid_lines, and none of its fields is a field of the           *)
(* normalized table.                                                       *)
(***************************************************************************)
C11_LineFiltering ==
    Converted =>
        \A line \in DisallowedLines :
            /\ line \notin
                   ElementsOf(Split(_filter_valid_lines(PackedText(pdf_text)),
                                    "\n"))
            /\ ElementsOf(SelectSeq(Split(line, ","), LAMBDA f : f # <<>>))
                   \cap ElementsOf(AllFields(locals.normalized)) = {}

\* The fields of a persisted row, its difference flag apart.
TimeFields(row) ==
    LET fields == FieldsOf(row)
    IN  IF Len(fields) > 0 /\ <<",">> \o fields[Len(fields)] \in {TrueFlag, FalseFlag}
        THEN SubSeq(fields, 1, Len(fields) - 1)
        ELSE fields

\* The fields of the rows of a persisted table, in row order.
PersistedFields(text) ==
    LET rows == RowsOf(text)
    IN  Concat([k \in 1..Len(rows) |-> TimeFields(rows[k])])

(***************************************************************************)
(* C12: after a run that completes, every field of every row of the two    *)
(* persisted direction tables is a 12-hour time with its meridiem letter   *)
(* (hour 1..12, minute 00..59, A or P) or the literal CLOSED.              *)
(***************************************************************************)
C12_WellFormedFields ==
    outcome = "returned" =>
        \A d \in Directions :
            \A field \in ElementsOf(PersistedFields(stored[d])) :
                IsQualified(field)

\* No line of the extracted text survives _filter_valid_lines.
NothingSurvives == _filter_valid_lines(PackedText(pdf_text)) = <<>>

(***************************************************************************)
(* C13: when no line of the raw text survives filtering, the run fails     *)
(* with an error and persists nothing: neither the westbound nor the       *)
(* eastbound object is written.  Stated for the events whose PDF is        *)
(* downloaded and whose writes do not fail, so that the only possible      *)
(* failure is the malformed schedule.                                      *)
(***************************************************************************)
C13_EmptyScheduleFailure ==
    (outcome # "idle" /\ event.fault = "none" /\ NothingSurvives) =>
        /\ outcome = "raised"
        /\ stored = NothingStored

\* The fields of a row that are not CLOSED, in order.
OpenFields(row) == SelectSeq(FieldsOf(row), LAMBDA field : field # CLOSED)

\* The last non-CLOSED field of `row` is a PM time and the first
\* non-CLOSED field of `next` is an AM time.
PmThenAm(row, next) ==
    LET last == OpenFields(row)
        first == OpenFields(next)
    IN  /\ last # <<>>
        /\ first # <<>>
        /\ IsSuffixedTime(last[Len(last)]) /\ last[Len(last)][Len(last[Len(last)])] = "P"
        /\ IsSuffixedTime(first[1]) /\ first[1][Len(first[1])] = "A"

\* The rows of the normalized table after which a PM-to-AM transition lies.
Boundaries == 
    LET rows == RowsOf(locals.normalized)
    IN  {i \in 1..Len(rows) - 1 : PmThenAm(rows[i], rows[i + 1])}

(***************************************************************************)
(* C14: _split_westbound_eastbound splits after the first row i whose last *)
(* non-CLOSED field is a PM time while the first non-CLOSED field of row   *)
(* i+1 is an AM time: the rows up to i are Westbound, the rows after it    *)
(* Eastbound, in order.  With no such pair of rows every row is Westbound  *)
(* and the Eastbound table is empty.                                       *)
(***************************************************************************)
C14_DirectionSplit ==
    Converted =>
        LET rows == RowsOf(locals.normalized)
        IN  IF Boundaries = {}
            THEN /\ RowsOf(locals.split.westbound) = rows
                 /\ locals.split.eastbound = <<>>
            ELSE LET i == CHOOSE b \in Boundaries : \A c \in Boundaries : b <= c
                 IN  /\ RowsOf(locals.split.westbound) = SubSeq(rows, 1, i)
                     /\ RowsOf(locals.split.eastbound) = SubSeq(rows, i + 1, Len(rows))

\* A run on a table with two PM-to-AM transitions, the first after a row
\* that ends in CLOSED.
C14_Witness ==
    /\ Converted
    /\ Cardinality(Boundaries) >= 2
    /\ \E i \in Boundaries :
           LET fields == FieldsOf(RowsOf(locals.normalized)[i])
           IN  /\ fields[Len(fields)] = CLOSED
               /\ \A c \in Boundaries : i <= c

\* The meridiem letter of a time that has one.
MeridiemOf(field) == field[Len(field)]

\* The hour of a time, read digit by digit up to the colon.
HourDigits(field) == IF field[2] = ":" THEN 1 ELSE 2

HourIn(field) ==
    IF HourDigits(field) = 1 THEN DigitVal(field[1])
    ELSE 10 * DigitVal(field[1]) + DigitVal(field[2])

Opposite(meridiem) == IF meridiem = "A" THEN "P" ELSE "A"

\* The fields before field i, and those after it, that are times with a
\* meridiem letter.
QualifiedBefore(fields, i) == {j \in 1..i - 1 : IsSuffixedTime(fields[j])}

QualifiedAfter(fields, i) == {j \in i + 1..Len(fields) : IsSuffixedTime(fields[j])}

\* The meridiem the rule of the three cases gives the bare time at field i.
RuleSuffix(fields, i) ==
    LET hour == HourIn(fields[i])
        earlier == QualifiedBefore(fields, i)
        later == QualifiedAfter(fields, i)
    IN  IF earlier # {}
        THEN LET p == fields[CHOOSE j \in earlier : \A k \in earlier : k <= j]
             IN  IF hour >= HourIn(p) \/ HourIn(p) - hour <= 2
                 THEN MeridiemOf(p) ELSE Opposite(MeridiemOf(p))
        ELSE IF later # {}
        THEN LET n == fields[CHOOSE j \in later : \A k \in later : j <= k]
             IN  IF hour <= HourIn(n) \/ hour - HourIn(n) <= 2
                 THEN MeridiemOf(n) ELSE Opposite(MeridiemOf(n))
        ELSE IF hour <= 11 THEN "A" ELSE "P"

\* The line as _fix_missing_am_pm holds it when it reaches field i: the
\* fields before i as it returned them, the others as they were read.
FieldsWhenAt(i) ==
    SubSeq(fixed_columns, 1, i - 1) \o SubSeq(row_columns, i, Len(row_columns))

\* The specification's example: bare 7:05 between 6:58A and 7:30P.
ExampleColumns == <<ClockTime(418), Bare(ClockTime(425)), ClockTime(1170)>>

(***************************************************************************)
(* C15: for a bare time field of a row, _infer_am_pm_suffix returns the    *)
(* meridiem of the nearest earlier time with a meridiem when the bare hour *)
(* is not below that time's hour by more than 2, and the opposite meridiem *)
(* otherwise, without consulting the later fields; with no earlier such    *)
(* time, the meridiem of the nearest later one when the bare hour is not   *)
(* above its hour by more than 2, and the opposite otherwise; with neither,*)
(* A for an hour up to 11 and P otherwise.  _fix_missing_am_pm gives every *)
(* bare field of the row the letter of this rule.  Bare 7:05 between 6:58A *)
(* and 7:30P becomes 7:05A.                                                *)
(***************************************************************************)
C15_MeridiemInference ==
    /\ am_pm_suffix # NoSuffix =>
           /\ am_pm_suffix = RuleSuffix(row_columns, bare_index)
           /\ row_columns = ExampleColumns => am_pm_suffix = "A"
    /\ fixed_columns # NotFixed =>
           /\ Len(fixed_columns) = Len(row_columns)
           /\ \A i \in 1..Len(row_columns) :
                  fixed_columns[i] =
                      IF i \in BareIndices(row_columns)
                      THEN row_columns[i] \o <<RuleSuffix(FieldsWhenAt(i), i)>>
                      ELSE row_columns[i]

\* The example has been inferred and fixed: 7:05A between 6:58A and 7:30P.
C15_Witness ==
    /\ row_columns = ExampleColumns
    /\ am_pm_suffix = "A"
    /\ fixed_columns = <<ClockTime(418), ClockTime(425), ClockTime(1170)>>

(***************************************************************************)
(* C16: a bare time with hour 1 whose nearest preceding time with a        *)
(* meridiem has hour 12 is given the meridiem of that time: 12:50A then    *)
(* bare 1:05 becomes 1:05A, 12:50P then bare 1:05 becomes 1:05P.           *)
(***************************************************************************)
C16_ShortRollover ==
    fixed_columns # NotFixed =>
        \A i \in BareIndices(row_columns) :
            LET fields == FieldsWhenAt(i)
                earlier == QualifiedBefore(fields, i)
                nearest == fields[CHOOSE j \in earlier : \A k \in earlier : k <= j]
            IN  (/\ HourIn(fields[i]) = 1
                 /\ earlier # {}
                 /\ HourIn(nearest) = 12)
                => fixed_columns[i] = fields[i] \o <<MeridiemOf(nearest)>>

\* The index of the Eastbound registry that names the station of the
\* Westbound registry's index p.
EastIndexOf(p) ==
    CHOOSE q \in 1..Len(PATCO_STATIONS_EASTBOUND) :
        PATCO_STATIONS_EASTBOUND[q] = PATCO_STATIONS_WESTBOUND[p]

\* Every field of the source row `source` is, in the row `written`, at the
\* index of the Eastbound registry that names the station of its column.
Aligned(source, written) ==
    \A p \in 1..Len(source) :
        /\ p <= Len(PATCO_STATIONS_WESTBOUND)
        /\ EastIndexOf(p) <= Len(written)
        /\ written[EastIndexOf(p)] = source[p]

(***************************************************************************)
(* C17: the Eastbound registry is the reverse of the Westbound registry,   *)
(* and every row of the Eastbound table, a trailing partial row included,  *)
(* is written reversed so that the field of source column j stands at the  *)
(* index of the Eastbound registry that names station WEST[j]; Westbound   *)
(* rows keep their field order.                                            *)
(***************************************************************************)
C17_EastboundAlignment ==
    /\ \A i \in 1..Len(PATCO_STATIONS_WESTBOUND) :
           PATCO_STATIONS_EASTBOUND[i] =
               PATCO_STATIONS_WESTBOUND[Len(PATCO_STATIONS_WESTBOUND) + 1 - i]
    /\ Converted =>
           LET east == RowsOf(locals.split.eastbound)
               east_written == RowsOf(locals.eastbound_text)
               west == RowsOf(locals.split.westbound)
               west_written == RowsOf(locals.westbound_text)
           IN  /\ Len(east_written) = Len(east)
               /\ \A k \in 1..Len(east) :
                      Aligned(FieldsOf(east[k]), TimeFields(east_written[k]))
               /\ Len(west_written) = Len(west)
               /\ \A k \in 1..Len(west) :
                      TimeFields(west_written[k]) = FieldsOf(west[k])

\* The text _add_difference_flags was given for a direction, and the text
\* it returned.
FlagInput(d) ==
    IF d = "westbound" THEN locals.split.westbound ELSE locals.reversed_eastbound

FlagOutput(d) ==
    IF d = "westbound" THEN locals.westbound_text ELSE locals.eastbound_text

\* The rows of the baseline schedule of a direction, whitespace around
\* them ignored.
BaselineRows(d) ==
    {Strip(row) : row \in ElementsOf(RowsOf(event.regular[d]))} \ {<<>>}

\* The flag at the end of a row: "true", "false", or "none".
FlagOf(row) ==
    LET fields == FieldsOf(row)
        last == IF fields = <<>> THEN <<>> ELSE <<",">> \o fields[Len(fields)]
    IN  IF last = TrueFlag THEN "true"
        ELSE IF last = FalseFlag THEN "false" ELSE "none"

C20_AllOrNothing ==
    outcome # "idle" =>
        \/ stored = NothingStored
        \/ stored = [westbound |-> locals.westbound_text,
                     eastbound |-> locals.eastbound_text]

\* The segments the last run handed to batch_write_to_dynamodb, in order.
HandedItems == Concat(handed)

\* The segments it handed over for row r of its CSV.
HandedOfRow(r) ==
    SelectSeq(HandedItems, LAMBDA item : item.trip_id = TripId(ingest.direction, r))

FlagWords == {Tail(TrueFlag), Tail(FalseFlag)}

(***************************************************************************)
(* C21: every direction CSV the conversion can persist, one with the       *)
(* true/false difference flag as a 15th field of its rows included, is     *)
(* processed without error into one trip per row whose segments lie within *)
(* the station indices 0..N-1; the flag is never a departure or arrival    *)
(* time and never makes the ingestion fail.                                *)
(***************************************************************************)
C21_FlaggedRowsIngestible ==
    ingest # NoIngest =>
        /\ store_status = 200
        /\ \A r \in 1..Len(ingest.rows) :
               /\ HandedOfRow(r) # <<>>
               /\ \A item \in ElementsOf(HandedOfRow(r)) :
                      /\ item.source_station_index >= 0
                      /\ item.destination_station_index <= Len(PATCO_STATIONS_WESTBOUND) - 1
                      /\ item.departure_time \notin FlagWords
                      /\ item.arrival_time \notin FlagWords

\* The row holds a field that is neither CLOSED nor a time of the grammar.
HasInvalidField(row) == \E k \in 1..Len(row) : ~IsQualified(row[k])

\* The items of a table that belong to the trip of row r.
StoredOfRow(table, direction, r) == SegmentsOf(table, TripId(direction, r))

(***************************************************************************)
(* C22: a row holding a field that is neither CLOSED nor a time of the     *)
(* grammar is rejected: it is not stored as a trip and none of its         *)
(* segments can be queried, while the other rows of the CSV are processed. *)
(***************************************************************************)
C22_InvalidFieldsRejected ==
    ingest # NoIngest =>
        \A r \in 1..Len(ingest.rows) :
            IF HasInvalidField(ingest.rows[r])
            THEN /\ HandedOfRow(r) = <<>>
                 /\ \A item \in StoredOfRow(tables[ingest.direction], ingest.direction, r) :
                        /\ IsQualified(item.departure_time)
                        /\ IsQualified(item.arrival_time)
            ELSE HandedOfRow(r) # <<>>

(***************************************************************************)
(* C23: whatever the order in which the CSVs of two schedule dates are     *)
(* processed, the trips that can be queried for a date are exactly those   *)
(* the runs for that date alone produce; processing the other date never   *)
(* overwrites, mixes into or removes them.                                 *)
(***************************************************************************)
C23_IndependentDates ==
    \A date \in Dates, d \in Directions :
        processed[date][d] # EmptyTable => tables[d] = processed[date][d]

\* An entry of the API's answer, without the direction the script's
\* entries do not carry.
ScriptEntry(trip) ==
    [ departure_time |-> trip.departure_time,
      arrival_time |-> trip.arrival_time,
      source_station |-> trip.source_station,
      destination_station |-> trip.destination_station,
      trip_id |-> trip.trip_id ]

(***************************************************************************)
(* C24: an eastbound query from the first station of the Eastbound         *)
(* registry (index 0, Lindenwold) to a station at a higher Eastbound index *)
(* is answered by the API with the same trips as the repository's test     *)
(* script finds for the same records, source and destination index.        *)
(***************************************************************************)
C24_EastboundByRegistryPosition ==
    ( /\ Answered
      /\ request.direction = "eastbound"
      /\ AskedSource = 0
      /\ AskedDestination > 0 )
    => {ScriptEntry(AnsweredTrips[i]) : i \in 1..Len(AnsweredTrips)}
           = ScriptMatchingTrips(tables["eastbound"], AskedSource, AskedDestination)

\* The table a run on the empty table builds from the rows of a CSV.
FreshTable(d, rows) ==
    process_csv_to_dynamodb(EmptyTable, CsvText(rows), StationsOf(d), d)

(***************************************************************************)
(* C25: after any sequence of successful runs of process_csv_to_dynamodb   *)
(* for a direction, the table of the direction holds exactly the trips and *)
(* segments of the rows of the CSV processed last; nothing written by an   *)
(* earlier run remains.                                                    *)
(***************************************************************************)
C25_NoStaleTrips ==
    \A d \in Directions :
        loaded[d] # <<>> => tables[d] = FreshTable(d, loaded[d])

\* The segments of the rows of the last CSV: row after row, and within a
\* row pair after pair of neighbouring fields.
ExpectedSegments ==
    Concat([r \in 1..Len(ingest.rows) |->
               [i \in 1..Len(ingest.rows[r]) - 1 |->
                   [ key |-> <<TripId(ingest.direction, r), SegmentId(i - 1)>>,
                     departure_time |-> ingest.rows[r][i],
                     arrival_time |-> ingest.rows[r][i + 1] ]]])

(***************************************************************************)
(* C26: when process_csv_to_dynamodb completes without error, every        *)
(* segment (i, i+1) of every row has been handed to                        *)
(* batch_write_to_dynamodb exactly once, in row order then segment order;  *)
(* every batch holds at most 25 segments, every batch but the last exactly *)
(* 25, and no segment is left unwritten.                                   *)
(***************************************************************************)
C26_BatchedWrites ==
    store_status = 200 =>
        /\ [k \in 1..Len(HandedItems) |->
               [ key |-> ItemKey(HandedItems[k]),
                 departure_time |-> HandedItems[k].departure_time,
                 arrival_time |-> HandedItems[k].arrival_time ]]
               = ExpectedSegments
        /\ \A b \in 1..Len(handed) :
               /\ Len(handed[b]) >= 1
               /\ Len(handed[b]) <= 25
               /\ b < Len(handed) => Len(handed[b]) = 25

\* A run on four rows: two batches of 25 segments and a last one of 2.
C26_Witness ==
    /\ store_status = 200
    /\ Len(handed) = 3
    /\ Len(handed[3]) = 2
    /\ Len(ingest.rows) = 4

(***************************************************************************)
(* C27.  Write-once special-schedule PDF: the PDF of a date is written to   *)
(* its key at most once, whatever the interleaving of the three programs    *)
(* that save it.                                                            *)
(***************************************************************************)
C27_WriteOncePdf == \A date \in Dates : pdf_puts[date] <= 1

\* Whether both CSVs of a date are in the bucket.
BothCsvExist(date) ==
    \A d \in {"eastbound", "westbound"} : <<date, d>> \in csv_objects

DirectionLinks == {"eastbound_url", "westbound_url"}

(***************************************************************************)
(* C28.  Both-or-none for readers: an endpoint's answer carries            *)
(* special-schedule links only if both CSVs of the date exist; when one is  *)
(* missing GetSchedules answers 404 without a link and GetScheduleFiles     *)
(* leaves the special schedule out; no answer links one direction only.    *)
(***************************************************************************)
C28_BothOrNone ==
    \A r \in Readers :
        readers[r].step = "answered" =>
            /\ readers[r].links # {} => BothCsvExist(readers[r].date)
            /\ ~BothCsvExist(readers[r].date) =>
                   /\ readers[r].links = {}
                   /\ r = "GetSchedules" => readers[r].statusCode = 404
            /\ readers[r].links \cap DirectionLinks \in {{}, DirectionLinks}

\* GetSchedules has answered 404 for a date of which only the westbound CSV
\* is uploaded, and GetScheduleFiles has handed out both links of the other.
C28_Witness ==
    \E date \in Dates, other \in Dates :
        /\ date # other
        /\ <<date, "westbound">> \in csv_objects
        /\ <<date, "eastbound">> \notin csv_objects
        /\ readers["GetSchedules"] =
               [date |-> date, step |-> "answered", files_exist |-> <<FALSE, TRUE>>,
                statusCode |-> 404, links |-> {}]
        /\ readers["GetScheduleFiles"].step = "answered"
        /\ readers["GetScheduleFiles"].date = other
        /\ DirectionLinks \subseteq readers["GetScheduleFiles"].links

\* Whether every CLOSED of a line opens the line or follows a comma.
ClosedSeparated(line) ==
    \A p \in 1..Len(line) : ClosedAt(line, p) => p = 1 \/ line[p - 1] = ","

(***************************************************************************)
(* C29.  CLOSED fix-up: in every line of the text _fix_closed_formatting    *)
(* returns, every CLOSED is at the start of the line or right after a       *)
(* comma, also when several CLOSED stand next to each other in the input.  *)
(***************************************************************************)
C29_ClosedFixUp ==
    closed_fixed # NotFixed =>
        LET lines == Split(closed_fixed, "\n")
        IN  \A k \in 1..Len(lines) : ClosedSeparated(lines[k])

(***************************************************************************)
(* C30.  Equivalent converters: on every extracted text the Rock Pi         *)
(* converter returns what the Lambda returns: process_text gives the text   *)
(* of _process_text, and split_westbound_eastbound gives the tables of      *)
(* _split_westbound_eastbound on the same text, so both programs end with   *)
(* the same westbound and eastbound tables.                                 *)
(***************************************************************************)
C30_EquivalentConverters ==
    converted # NotConverted =>
        /\ converted.rockpi_csv = converted.lambda_csv
        /\ converted.rockpi_split_of_lambda_csv = converted.lambda_tables
        /\ converted.rockpi_tables = converted.lambda_tables

=============================================================================
